---- MODULE Spec2Model ----
(***************************************************************************)
(* Model of the scaling, command and mode-selection logic of the LEGO      *)
(* MINDSTORMS sensor drivers: the mindsensors 8-channel servo controller,  *)
(* the mindsensors Absolute-IMU, the CruizCore XG1300L (nxt_i2c_sensor     *)
(* definitions) and the legoev3 EV3 analog sensor driver.                  *)
(***************************************************************************)
EXTENDS Integers, Sequences, FiniteSets, TLC

VARIABLES
    raw_data,           \* mode_info->raw_data of the mode being scaled (bytes)
    imu_mode_info,      \* Absolute-IMU sensor.mode_info[0..5] scaling fields
    xg_state,           \* XG1300L instance: "unbound", "bound" or "oops"
    xg_callback_data,   \* XG1300L data->callback_data: "NULL" or "heap"
    xg_scaling_factor,  \* the u8 that callback_data points to
    xg_mode,            \* XG1300L data->sensor.mode
    i2c_read_result,    \* what the next i2c_smbus_read_word_data returns
    servo_state,        \* 8-channel servo controller: "unbound", "bound", "oops"
    servo_registered,   \* ids of the servo motors registered with the class
    servo_callback_data,\* data->callback_data: "NULL", "servos" or "dangling"
    servo_poll_ms,      \* data->poll_ms
    as_state,           \* legoev3 analog sensor: "unbound", "bound", or a
                        \* position inside remove
    as_info,            \* as->info (num_modes and analog_mode_info[])
    as_mode,            \* as->mode
    as_pc,              \* where a set_mode call in progress stands, and its mode
    as_raw_data,        \* the int at as->info.ms_mode_info[m].raw_data, per mode
    in_port,            \* input port: pin 5 state and registered analog cb
    config,             \* kernel configuration: which optional code is built
    la_state,           \* lego-class analog sensor: as as_state
    la_num_modes,       \* data->info.num_modes
    la_port_ptr,        \* raw-data pointer registered with ldev->port
    ua_state,           \* ev3-uart sensor: as as_state
    ua_port_type,       \* ldev->port->dev.type
    ua_num_modes,       \* data->sensor.num_modes
    ua_info,            \* data->info (num_modes and num_view_modes)
    ua_port_ptr,        \* raw-data pointer registered with ldev->port
    nxt_sensor,         \* index of the bound nxt_i2c_sensor_defs entry, or 0
    nxt_mode,           \* its sensor.mode
    last                \* the call made last: its arguments and its results

vars == << raw_data, imu_mode_info, xg_state, xg_callback_data,
           xg_scaling_factor, xg_mode, i2c_read_result,
           servo_state, servo_registered, servo_callback_data, servo_poll_ms,
           as_state, as_info, as_mode, as_pc, as_raw_data, in_port,
           config, la_state, la_num_modes, la_port_ptr,
           ua_state, ua_port_type, ua_num_modes, ua_info, ua_port_ptr,
           nxt_sensor, nxt_mode, last >>

servo_vars == << servo_state, servo_registered, servo_callback_data,
                 servo_poll_ms >>
la_vars == << la_state, la_num_modes, la_port_ptr >>
ua_vars == << ua_state, ua_port_type, ua_num_modes, ua_info, ua_port_ptr >>
lego_vars == << config, la_vars, ua_vars >>
nxt_vars == << nxt_sensor, nxt_mode >>
imu_vars == << imu_mode_info >>
xg_vars == << xg_state, xg_callback_data, xg_scaling_factor, xg_mode >>
as_vars == << as_state, as_info, as_mode, as_pc, as_raw_data, in_port >>

----------------------------------------------------------------------------
(* Bounds of the model.                                                    *)

\* raw sample buffers hold the bytes b, b+s, b+2s, ... for s = 77*k, k <= MaxStride
MaxStride == 1
\* commands sent to the XG1300L post-callback range over 0..MaxCommand
MaxCommand == 4
\* the analog sensor definitions have 1..MaxModes modes
MaxModes == 2
\* a failed bus read returns one of the error codes -1 .. -MaxErrno
MaxErrno == 6

----------------------------------------------------------------------------
(* C arithmetic and raw-data access.                                       *)

Byte == 0 .. 255

Abs(a) == IF a < 0 THEN -a ELSE a

\* C integer division truncates toward zero
CDiv(a, b) ==
    IF (a < 0) = (b < 0) THEN Abs(a) \div Abs(b) ELSE -(Abs(a) \div Abs(b))

\* ((s16 *)raw)[index] on the little-endian CPU of the brick
S16At(raw, index) ==
    LET u == raw[2 * index] + 256 * raw[2 * index + 1]
    IN  IF u >= 32768 THEN u - 65536 ELSE u

\* the raw_data buffers the scale functions are tried on
RawBuffers ==
    { [k \in 0 .. 31 |-> (b + k * 77 * s) % 256] : b \in Byte, s \in 1 .. MaxStride }

\* one entry of the log of a call: a bus, port, class or allocator operation
Op(op, n, data) == [op |-> op, reg |-> n, data |-> data]

\* the positions of the operations named op in a log
OpIndexes(log, op) == { k \in 1 .. Len(log) : log[k].op = op }

\* the raw-data pointer a port holds: into mode_info[mode].raw_data of the
\* driver data of owner, or NULL
NullPtr == [owner |-> "NULL", mode |-> 0]
RawDataPtr(owner, mode) == [owner |-> owner, mode |-> mode]

\* a probe whose registration fails that does not free the data
RegisterFailedOps_nofree(register, owner, err) ==
    << Op("kzalloc", 0, owner), Op(register, err, owner) >>

\* the calls of a sensor probe whose registration (register) fails with err:
\* the goto to the error label frees the data
RegisterFailedOps(register, owner, err) ==
    << Op("kzalloc", 0, owner), Op(register, err, owner), Op("kfree", 0, owner) >>

NoCall ==
    [name |-> "none", arg |-> 0, index |-> 0, ret |-> 0, value |-> 0,
     fault |-> FALSE, log |-> << >>]

Call(name, arg, index, ret, value) ==
    [name |-> name, arg |-> arg, index |-> index, ret |-> ret, value |-> value,
     fault |-> FALSE, log |-> << >>]

----------------------------------------------------------------------------
(* Default linear scaler of the lego-sensor class.                         *)

\* a / b rounded to the nearest integer, halves away from zero (b > 0)
RoundDiv(a, b) == CDiv(2 * a + (IF a < 0 THEN -b ELSE b), 2 * b)

lego_sensor_default_scale(mode_info, x) ==
    mode_info.si_min +
        RoundDiv((x - mode_info.raw_min) * (mode_info.si_max - mode_info.si_min),
                 mode_info.raw_max - mode_info.raw_min)

\* the documented defaults of the fields a definition leaves unset
DefaultModeInfo == [raw_min |-> 0, raw_max |-> 255, si_min |-> 0, si_max |-> 255]

----------------------------------------------------------------------------
(* mindsensors.com Absolute-IMU.                                           *)

\* the table with the digits of one entry transposed (97 entered as 79)
ms_imu_tilt2deg_typo == <<
    0, 0, 1, 1, 2, 2, 3, 3, 4, 4, 4, 5, 5, 6, 6, 7, 7, 8, 8, 9, 9, 9, 10,
    10, 11, 11, 12, 12, 13, 13, 14, 14, 14, 15, 15, 16, 16, 17, 17, 18, 18,
    19, 19, 20, 20, 21, 21, 22, 22, 23, 23, 23, 24, 24, 25, 25, 26, 26, 27,
    27, 28, 28, 29, 29, 30, 31, 31, 32, 32, 33, 33, 34, 34, 35, 35, 36, 36,
    37, 38, 38, 39, 39, 40, 40, 41, 42, 42, 43, 43, 44, 45, 45, 46, 47, 47,
    48, 49, 49, 50, 51, 51, 52, 53, 54, 54, 55, 56, 57, 58, 58, 59, 60, 61,
    62, 63, 64, 65, 66, 67, 68, 70, 71, 72, 74, 76, 78, 80, 83, 90, 79, 100,
    102, 104, 106, 108, 109, 110, 112, 113, 114, 115, 116, 117, 118, 119,
    120, 121, 122, 122, 123, 124, 125, 126, 126, 127, 128, 129, 129, 130,
    131, 131, 132, 133, 133, 134, 135, 135, 136, 137, 137, 138, 138, 139,
    140, 140, 141, 141, 142, 142, 143, 144, 144, 145, 145, 146, 146, 147,
    147, 148, 148, 149, 149, 150, 151, 151, 152, 152, 153, 153, 154, 154,
    155, 155, 156, 156, 157, 157, 157, 158, 158, 159, 159, 160, 160, 161,
    161, 162, 162, 163, 163, 164, 164, 165, 165, 166, 166, 166, 167, 167,
    168, 168, 169, 169, 170, 170, 171, 171, 171, 172, 172, 173, 173, 174,
    174, 175, 175, 176, 176, 176, 177, 177, 178, 178, 179, 179, 180 >>

ms_imu_tilt2deg == <<
    0, 0, 1, 1, 2, 2, 3, 3, 4, 4, 4, 5, 5, 6, 6, 7, 7, 8, 8, 9, 9, 9, 10,
    10, 11, 11, 12, 12, 13, 13, 14, 14, 14, 15, 15, 16, 16, 17, 17, 18, 18,
    19, 19, 20, 20, 21, 21, 22, 22, 23, 23, 23, 24, 24, 25, 25, 26, 26, 27,
    27, 28, 28, 29, 29, 30, 31, 31, 32, 32, 33, 33, 34, 34, 35, 35, 36, 36,
    37, 38, 38, 39, 39, 40, 40, 41, 42, 42, 43, 43, 44, 45, 45, 46, 47, 47,
    48, 49, 49, 50, 51, 51, 52, 53, 54, 54, 55, 56, 57, 58, 58, 59, 60, 61,
    62, 63, 64, 65, 66, 67, 68, 70, 71, 72, 74, 76, 78, 80, 83, 90, 97, 100,
    102, 104, 106, 108, 109, 110, 112, 113, 114, 115, 116, 117, 118, 119,
    120, 121, 122, 122, 123, 124, 125, 126, 126, 127, 128, 129, 129, 130,
    131, 131, 132, 133, 133, 134, 135, 135, 136, 137, 137, 138, 138, 139,
    140, 140, 141, 141, 142, 142, 143, 144, 144, 145, 145, 146, 146, 147,
    147, 148, 148, 149, 149, 150, 151, 151, 152, 152, 153, 153, 154, 154,
    155, 155, 156, 156, 157, 157, 157, 158, 158, 159, 159, 160, 160, 161,
    161, 162, 162, 163, 163, 164, 164, 165, 165, 166, 166, 166, 167, 167,
    168, 168, 169, 169, 170, 170, 171, 171, 171, 172, 172, 173, 173, 174,
    174, 175, 175, 176, 176, 176, 177, 177, 178, 178, 179, 179, 180 >>

\* C arrays are indexed from 0
Tilt2DegInRange(i) == i + 1 \in DOMAIN ms_imu_tilt2deg
Tilt2Deg(i) == ms_imu_tilt2deg[i + 1]

\* data_sets of the Absolute-IMU modes TILT, ACCEL, COMPASS, MAG, GYRO, ALL
imu_data_sets == [m \in 0 .. 5 |-> << 3, 3, 1, 3, 3, 23 >>[m + 1]]

\* cmd_info[]: the index of each command name
imu_cmd_index ==
    [ BEGIN_COMP_CAL |-> 0, END_COMP_CAL |-> 1, ACCEL_2G |-> 2,
      ACCEL_4G |-> 3, ACCEL_8G |-> 4, ACCEL_16G |-> 5 ]

imu_num_commands == 6

imu_mode_info_init ==
    [m \in 0 .. 5 |->
        IF m = 4 THEN [DefaultModeInfo EXCEPT !.raw_max = 10000, !.si_max = 875]
        ELSE DefaultModeInfo]

\* ms_imu_scale ignoring its index argument: always channel 0
ms_imu_scale_ch0(index) ==
    LET i == raw_data[0]
    IN  /\ IF Tilt2DegInRange(i)
           THEN last' = Call("ms_imu_scale", 0, index, 0, Tilt2Deg(i))
           ELSE \E junk \in Byte :
                    last' = [Call("ms_imu_scale", 0, index, 0, junk)
                                EXCEPT !.fault = TRUE]
        /\ UNCHANGED << raw_data, imu_vars, xg_vars, i2c_read_result, servo_vars, lego_vars,
                    nxt_vars, as_vars >>

\* *value = ms_imu_tilt2deg[mode_info->raw_data[index]]; a read past the end
\* of the table yields whatever byte lies there
ms_imu_scale(index) ==
    LET i == raw_data[index]
    IN  /\ IF Tilt2DegInRange(i)
           THEN last' = Call("ms_imu_scale", 0, index, 0, Tilt2Deg(i))
           ELSE \E junk \in Byte :
                    last' = [Call("ms_imu_scale", 0, index, 0, junk)
                                EXCEPT !.fault = TRUE]
        /\ UNCHANGED << raw_data, imu_vars, xg_vars, i2c_read_result, servo_vars, lego_vars,
                    nxt_vars, as_vars >>

\* the value of a GYRO channel, scaled by the default linear scaler
imu_gyro_scale(index) ==
    /\ last' = Call("imu_gyro_scale", 4, index, 0,
                    lego_sensor_default_scale(imu_mode_info[4],
                                              S16At(raw_data, index)))
    /\ UNCHANGED << raw_data, imu_vars, xg_vars, i2c_read_result, servo_vars, lego_vars,
                    nxt_vars, as_vars >>

\* a callback whose case 2 sets raw_max and leaves si_max
GyroAfterCmd_rawonly(mode_info, command) ==
    CASE command = 1 -> [mode_info EXCEPT ![4].raw_max = 10000, ![4].si_max = 875]
      [] command = 2 -> [mode_info EXCEPT ![4].raw_max = 1000]
      [] command \in {4, 5} ->
                        [mode_info EXCEPT ![4].raw_max = 1000, ![4].si_max = 700]
      [] OTHER -> mode_info

\* the post-callback taking mode_info[3] (MAG) for the GYRO mode
GyroAfterCmd_mode3(mode_info, command) ==
    CASE command = 1 -> [mode_info EXCEPT ![3].raw_max = 10000, ![3].si_max = 875]
      [] command = 2 -> [mode_info EXCEPT ![3].raw_max = 1000, ![3].si_max = 175]
      [] command \in {4, 5} ->
                        [mode_info EXCEPT ![3].raw_max = 1000, ![3].si_max = 700]
      [] OTHER -> mode_info

GyroAfterCmd(mode_info, command) ==
    CASE command = 1 -> [mode_info EXCEPT ![4].raw_max = 10000, ![4].si_max = 875]
      [] command = 2 -> [mode_info EXCEPT ![4].raw_max = 1000, ![4].si_max = 175]
      [] command \in {4, 5} ->
                        [mode_info EXCEPT ![4].raw_max = 1000, ![4].si_max = 700]
      [] OTHER -> mode_info

ms_imu_send_cmd_post_cb(command) ==
    /\ imu_mode_info' = GyroAfterCmd(imu_mode_info, command)
    /\ last' = Call("ms_imu_send_cmd_post_cb", command, 0, 0, 0)
    /\ UNCHANGED << raw_data, xg_vars, i2c_read_result, servo_vars, lego_vars,
                    nxt_vars, as_vars >>

ImuNext ==
    \/ \E index \in 0 .. imu_data_sets[0] - 1 : ms_imu_scale(index)
    \/ \E index \in 0 .. imu_data_sets[4] - 1 : imu_gyro_scale(index)
    \/ \E command \in 0 .. imu_num_commands - 1 : ms_imu_send_cmd_post_cb(command)

----------------------------------------------------------------------------
(* Microinfinity CruizCore XG1300L.                                        *)

\* data_sets of the XG1300L modes ANGLE, SPEED, ACCEL, ALL
xg_data_sets == [m \in 0 .. 3 |-> << 1, 1, 3, 5 >>[m + 1]]

\* the modes whose mode_info.scale is mi_xg1300l_scale: ACCEL and ALL
xg_scale_modes == {2, 3}

xg_num_modes == 4

\* no XG1300L mode declares a raw or SI range: all four get the defaults
xg_mode_info == [m \in 0 .. 3 |-> DefaultModeInfo]

\* mi_xg1300l_scale bypassing only the first value of ALL
XgScaleValue_index1(mode, scaling_factor, mode_info, raw, index) ==
    IF mode = 3 /\ index < 1
    THEN lego_sensor_default_scale(mode_info, S16At(raw, index))
    ELSE S16At(raw, index) * scaling_factor

\* the value mi_xg1300l_scale stores through *value
XgScaleValue(mode, scaling_factor, mode_info, raw, index) ==
    IF mode = 3 /\ index < 2
    THEN lego_sensor_default_scale(mode_info, S16At(raw, index))
    ELSE S16At(raw, index) * scaling_factor

mi_xg1300l_scale(index) ==
    /\ xg_state = "bound"
    /\ xg_mode \in xg_scale_modes
    /\ last' = Call("mi_xg1300l_scale", xg_mode, index, 0,
                    XgScaleValue(xg_mode, xg_scaling_factor,
                                 xg_mode_info[xg_mode], raw_data, index))
    /\ UNCHANGED << raw_data, imu_vars, xg_vars, i2c_read_result, servo_vars, lego_vars,
                    nxt_vars, as_vars >>

\* a post-callback that clears the factor on a command it does not know
XgFactorAfterCmd_clear(scaling_factor, command) ==
    IF command = 0 \/ command = 1 THEN 1
    ELSE IF command = 2 THEN 2
    ELSE IF command = 3 THEN 4
    ELSE 0

\* the post-callback taking the range in g (8) for the factor of ACCEL-8G
XgFactorAfterCmd_8g(scaling_factor, command) ==
    IF command = 0 \/ command = 1 THEN 1
    ELSE IF command = 2 THEN 2
    ELSE IF command = 3 THEN 8
    ELSE scaling_factor

XgFactorAfterCmd(scaling_factor, command) ==
    IF command = 0 \/ command = 1 THEN 1
    ELSE IF command = 2 THEN 2
    ELSE IF command = 3 THEN 4
    ELSE scaling_factor

mi_xg1300l_send_cmd_post_cb(command) ==
    /\ xg_state = "bound"
    /\ xg_scaling_factor' = XgFactorAfterCmd(xg_scaling_factor, command)
    /\ last' = Call("mi_xg1300l_send_cmd_post_cb", command, 0, 0, 0)
    /\ UNCHANGED << raw_data, imu_vars, xg_state, xg_callback_data, xg_mode,
                    i2c_read_result, servo_vars, lego_vars,
                    nxt_vars, as_vars >>

\* kzalloc may return NULL; the result is written through unchecked, and a
\* write through NULL stops the probing thread with an oops
mi_xg1300l_probe_cb(alloc_ok) ==
    /\ xg_state = "unbound"
    /\ IF alloc_ok
       THEN /\ xg_scaling_factor' = 1
            /\ xg_callback_data' = "heap"
            /\ xg_state' = "bound"
            /\ last' = [Call("mi_xg1300l_probe_cb", 0, 0, 0, 0)
                            EXCEPT !.log = << Op("kzalloc", 0, 1) >>]
       ELSE /\ xg_state' = "oops"
            /\ last' = [Call("mi_xg1300l_probe_cb", 0, 0, 0, 0)
                            EXCEPT !.fault = TRUE,
                                   !.log = << Op("kzalloc", 0, 0) >>]
            /\ UNCHANGED << xg_scaling_factor, xg_callback_data >>
    /\ UNCHANGED << raw_data, imu_vars, xg_mode, i2c_read_result, servo_vars, lego_vars,
                    nxt_vars, as_vars >>

\* a remove_cb that frees the factor and keeps callback_data
mi_xg1300l_remove_cb_keepptr ==
    /\ xg_state \in {"bound", "unbound"}
    /\ IF xg_callback_data # "NULL"
       THEN /\ xg_scaling_factor' = 0
            /\ last' = [Call("mi_xg1300l_remove_cb", 0, 0, 0, 0)
                            EXCEPT !.log = << Op("kfree", 0, "scaling_factor") >>]
       ELSE /\ last' = Call("mi_xg1300l_remove_cb", 0, 0, 0, 0)
            /\ UNCHANGED xg_scaling_factor
    /\ xg_state' = "unbound"
    /\ UNCHANGED << raw_data, imu_vars, xg_callback_data, xg_mode,
                    i2c_read_result, servo_vars, lego_vars, nxt_vars, as_vars >>

\* kfree releases the factor: no value is left to read. With callback_data
\* NULL (no probe yet, or removed already) the callback does nothing.
mi_xg1300l_remove_cb ==
    /\ xg_state \in {"bound", "unbound"}
    /\ IF xg_callback_data # "NULL"
       THEN /\ xg_callback_data' = "NULL"
            /\ xg_scaling_factor' = 0
            /\ last' = [Call("mi_xg1300l_remove_cb", 0, 0, 0, 0)
                            EXCEPT !.log = << Op("kfree", 0, "scaling_factor") >>]
       ELSE /\ last' = Call("mi_xg1300l_remove_cb", 0, 0, 0, 0)
            /\ UNCHANGED << xg_callback_data, xg_scaling_factor >>
    /\ xg_state' = "unbound"
    /\ UNCHANGED << raw_data, imu_vars, xg_mode, i2c_read_result, servo_vars, lego_vars,
                    nxt_vars, as_vars >>

\* the host framework's current-mode selector
xg_set_mode(mode) ==
    /\ xg_state = "bound"
    /\ xg_mode' = mode
    /\ last' = Call("xg_set_mode", mode, 0, 0, 0)
    /\ UNCHANGED << raw_data, imu_vars, xg_state, xg_callback_data,
                    xg_scaling_factor, i2c_read_result, servo_vars, lego_vars,
                    nxt_vars, as_vars >>

XgNext ==
    \/ \E alloc_ok \in BOOLEAN : mi_xg1300l_probe_cb(alloc_ok)
    \/ mi_xg1300l_remove_cb
    \/ \E mode \in 0 .. xg_num_modes - 1 : xg_set_mode(mode)
    \/ \E command \in 0 .. MaxCommand : mi_xg1300l_send_cmd_post_cb(command)
    \/ \E index \in 0 .. xg_data_sets[xg_mode] - 1 : mi_xg1300l_scale(index)

----------------------------------------------------------------------------
(* mindsensors.com 8-channel servo motor controller.                       *)

\* i2c_smbus_read_word_data returns the 16-bit word read or a negative errno
NegErrnos == { -e : e \in 1 .. MaxErrno }
I2cReadResults == (0 .. 65535) \cup NegErrnos

I2cRead(reg) == [op |-> "read_word", reg |-> reg, data |-> 0]

\* get_rate rounding the quotient up
ServoRate_roundup(ret) ==
    IF ret < 0 THEN ret
    ELSE IF ret = 0 THEN 0
    ELSE CDiv(24000 + ret - 1, ret)

\* get_rate without the test for a failed read
ServoRate_nocheck(ret) ==
    IF ret = 0 THEN 0
    ELSE CDiv(24000, ret)

\* what ms_8ch_servo_get_rate returns when the word read returned ret
ServoRate(ret) ==
    IF ret < 0 THEN ret
    ELSE IF ret = 0 THEN 0
    ELSE CDiv(24000, ret)

\* the register each servo op addresses for channel id
ServoGetPositionReg(id) == 66 + id * 2
ServoSetPositionReg(id) == 66 + id * 2
ServoGetRateReg(id) == 82 + id

ServoSetRateReg(id) == 82 + id * 2

\* each behaviour makes one call on the bus result drawn for it: a second
\* call on the same result reaches no state the first cannot
ms_8ch_servo_get_position(id) ==
    /\ last.name = "none"
    /\ last' = [Call("ms_8ch_servo_get_position", id, 0, i2c_read_result, 0)
                    EXCEPT !.log = << I2cRead(ServoGetPositionReg(id)) >>]
    /\ UNCHANGED << raw_data, imu_vars, xg_vars, i2c_read_result, servo_vars, lego_vars,
                    nxt_vars, as_vars >>

ms_8ch_servo_get_rate(id) ==
    /\ last.name = "none"
    /\ last' = [Call("ms_8ch_servo_get_rate", id, 0, ServoRate(i2c_read_result), 0)
                    EXCEPT !.log = << I2cRead(ServoGetRateReg(id)) >>]
    /\ UNCHANGED << raw_data, imu_vars, xg_vars, i2c_read_result, servo_vars, lego_vars,
                    nxt_vars, as_vars >>

\* the largest rate request tried (requests are unsigned; 24000 and above
\* all take the first branch)
MaxRate == 24001

RateValues == (0 .. MaxRate) \cup {2147483647}
PositionValues == {0, 1500}
I2cWriteResults == {0, -MaxErrno}

I2cWrite(reg, data) == [op |-> "write_word", reg |-> reg, data |-> data]

\* set_rate writing one less than the quotient
ServoPeriod_minus1(value) ==
    IF value >= 24000 THEN 1
    ELSE IF value < 94 THEN 0
    ELSE CDiv(24000, value) - 1

\* set_rate rounding the quotient up
ServoPeriod_roundup(value) ==
    IF value >= 24000 THEN 1
    ELSE IF value < 94 THEN 0
    ELSE CDiv(24000 + value - 1, value)

\* set_rate with the lower clamp one too low
ServoPeriod_clamp93(value) ==
    IF value >= 24000 THEN 1
    ELSE IF value < 93 THEN 0
    ELSE CDiv(24000, value)

\* the period (scaled) that ms_8ch_servo_set_rate writes for a rate request
ServoPeriod(value) ==
    IF value >= 24000 THEN 1
    ELSE IF value < 94 THEN 0
    ELSE CDiv(24000, value)

\* the servo class calls the ops of a registered servo; each behaviour makes
\* one write after probe: a second write reaches no state the first cannot
ms_8ch_servo_set_position(id, value, write_ret) ==
    /\ servo_state = "bound"
    /\ id \in servo_registered
    /\ last.name = "ms_8ch_servo_probe_cb"
    /\ last' = [Call("ms_8ch_servo_set_position", value, id, write_ret, 0)
                    EXCEPT !.log = << I2cWrite(ServoSetPositionReg(id), value) >>]
    /\ UNCHANGED << raw_data, imu_vars, xg_vars, i2c_read_result, servo_vars,
                    as_vars, lego_vars, nxt_vars >>

ms_8ch_servo_set_rate(id, value, write_ret) ==
    /\ servo_state = "bound"
    /\ id \in servo_registered
    /\ last.name = "ms_8ch_servo_probe_cb"
    /\ last' = [Call("ms_8ch_servo_set_rate", value, id, write_ret, 0)
                    EXCEPT !.log = << I2cWrite(ServoSetRateReg(id), ServoPeriod(value)) >>]
    /\ UNCHANGED << raw_data, imu_vars, xg_vars, i2c_read_result, servo_vars,
                    as_vars, lego_vars, nxt_vars >>

\* the calls probe_cb makes when register_servo_motor fails with err for servo
\* fail_at (fail_at = 8: for none)
RECURSIVE ServoRegisterOps(_, _, _)
ServoRegisterOps(i, fail_at, err) ==
    IF i >= 8 THEN << >>
    ELSE IF i = fail_at THEN << Op("register_servo_motor", i, err) >>
    ELSE << Op("register_servo_motor", i, 0) >> \o ServoRegisterOps(i + 1, fail_at, err)

\* the rollback loop: for (i--; i >= 0; i--) unregister_servo_motor
RECURSIVE ServoUnregisterOps(_)
ServoUnregisterOps(i) ==
    IF i < 0 THEN << >>
    ELSE << Op("unregister_servo_motor", i, 0) >> \o ServoUnregisterOps(i - 1)

\* the rollback starting at the servo that failed
ServoRollbackOps_inclusive(fail_at) ==
    ServoUnregisterOps(fail_at) \o << Op("kfree", 0, 0) >>

\* the calls of the error branch of probe_cb
ServoRollbackOps(fail_at) ==
    ServoUnregisterOps(fail_at - 1) \o << Op("kfree", 0, 0) >>

\* alloc_ok: kzalloc returned memory. IS_ERR(NULL) is false, so a failed
\* allocation goes on to the loop, whose first store goes through NULL.
ms_8ch_servo_probe_cb(alloc_ok, fail_at, err) ==
    /\ servo_state = "unbound"
    /\ IF ~alloc_ok
       THEN /\ servo_state' = "oops"
            /\ last' = [Call("ms_8ch_servo_probe_cb", 0, fail_at, 0, 0)
                            EXCEPT !.fault = TRUE,
                                   !.log = << Op("kzalloc", 0, 0) >>]
            /\ UNCHANGED << servo_registered, servo_callback_data, servo_poll_ms >>
       ELSE IF fail_at < 8 /\ err < 0
       THEN /\ last' = [Call("ms_8ch_servo_probe_cb", 1, fail_at, err, 0)
                            EXCEPT !.log = << Op("kzalloc", 0, 1) >>
                                           \o ServoRegisterOps(0, fail_at, err)
                                           \o ServoRollbackOps(fail_at)]
            /\ UNCHANGED servo_vars
       ELSE /\ servo_state' = "bound"
            /\ servo_registered' = 0 .. ((IF fail_at < 8 THEN fail_at ELSE 8) - 1)
            /\ servo_callback_data' = "servos"
            /\ servo_poll_ms' = 1000
            /\ last' = [Call("ms_8ch_servo_probe_cb", 1, fail_at, 0, 0)
                            EXCEPT !.log = << Op("kzalloc", 0, 1) >>
                                           \o ServoRegisterOps(0, fail_at, err)]
    /\ UNCHANGED << raw_data, imu_vars, xg_vars, i2c_read_result, as_vars,
                    lego_vars, nxt_vars >>

\* remove_cb of a bound controller: callback_data keeps pointing at the
\* freed array
ms_8ch_servo_remove_cb ==
    /\ servo_state = "bound"
    /\ servo_state' = "removed"
    /\ servo_registered' = {}
    /\ servo_callback_data' = "dangling"
    /\ last' = [Call("ms_8ch_servo_remove_cb", 0, 0, 0, 0)
                    EXCEPT !.log = [i \in 1 .. 8 |->
                                        Op("unregister_servo_motor", i - 1, 0)]
                                   \o << Op("kfree", 0, 0) >>]
    /\ UNCHANGED << raw_data, imu_vars, xg_vars, i2c_read_result, servo_poll_ms,
                    as_vars, lego_vars, nxt_vars >>

ServoCtlNext ==
    \/ \E alloc_ok \in BOOLEAN, fail_at \in 0 .. 8, err \in NegErrnos :
            ms_8ch_servo_probe_cb(alloc_ok, fail_at, err)
    \/ ms_8ch_servo_remove_cb
    \/ /\ last.name = "ms_8ch_servo_probe_cb"
       /\ \E id \in servo_registered, value \in PositionValues,
             write_ret \in I2cWriteResults :
                ms_8ch_servo_set_position(id, value, write_ret)
    \/ /\ last.name = "ms_8ch_servo_probe_cb"
       /\ \E id \in servo_registered, value \in RateValues,
             write_ret \in I2cWriteResults :
                ms_8ch_servo_set_rate(id, value, write_ret)

ServoNext ==
    \/ \E id \in 0 .. 7 : ms_8ch_servo_get_position(id)
    \/ \E id \in 0 .. 7 : ms_8ch_servo_get_rate(id)

----------------------------------------------------------------------------
(* EV3 analog sensor driver (legoev3 port bus).                            *)

EINVAL == 22
ENOMEM == 12

Pin5States == {"FLOAT", "LOW", "HIGH"}

\* the entries ev3_analog_sensor_defs[] may hold: 1..MaxModes modes, each
\* with a pin 5 state and an optional analog callback of its own
AnalogInfos ==
    UNION { { [num_modes |-> n, analog_mode_info |-> f] :
                f \in [0 .. n - 1 -> [pin5_state : Pin5States,
                                      analog_cb : {"NULL", "custom_cb"}]] } :
            n \in 1 .. MaxModes }

NoInfo == [num_modes |-> 0, analog_mode_info |-> << >>]

\* no set_mode call is in progress
SetModeIdle == [pc |-> "idle", mode |-> 0]

\* the readings get_pin6_mv returns
MaxPin6Mv == 5000
Pin6Mv == {1, MaxPin6Mv}

PortOp(op, data) == [op |-> op, reg |-> 0, data |-> data]

\* the port accesses of a set_mode call that passed the range check
SetModePortOps(info, mode) ==
    << PortOp("set_pin5_gpio", info.analog_mode_info[mode].pin5_state),
       PortOp("register_analog_cb",
              IF info.analog_mode_info[mode].analog_cb # "NULL"
              THEN info.analog_mode_info[mode].analog_cb
              ELSE "ev3_analog_sensor_cb") >>

\* the port after those accesses
PortAfterOps(port, ops) ==
    [pin5 |-> ops[1].data, analog_cb |-> ops[2].data, context |-> "as"]

\* a get_mode that reports the default mode
ev3_analog_sensor_get_mode_zero ==
    /\ as_state = "bound"
    /\ last' = Call("ev3_analog_sensor_get_mode", 0, 0, 0, 0)
    /\ UNCHANGED << raw_data, imu_vars, xg_vars, i2c_read_result, servo_vars, lego_vars,
                    nxt_vars, as_vars >>

ev3_analog_sensor_get_mode ==
    /\ as_state = "bound"
    /\ last' = Call("ev3_analog_sensor_get_mode", 0, 0, as_mode, 0)
    /\ UNCHANGED << raw_data, imu_vars, xg_vars, i2c_read_result, servo_vars, lego_vars,
                    nxt_vars, as_vars >>

\* set_mode storing the mode before it checks it
ev3_analog_sensor_set_mode_early(mode) ==
    /\ as_state = "bound"
    /\ as_mode' = mode
    /\ IF mode >= as_info.num_modes
       THEN /\ last' = Call("ev3_analog_sensor_set_mode", mode, 0, -EINVAL, 0)
            /\ UNCHANGED << in_port >>
       ELSE LET ops == SetModePortOps(as_info, mode)
            IN  /\ in_port' = PortAfterOps(in_port, ops)
                /\ last' = [Call("ev3_analog_sensor_set_mode", mode, 0, 0, 0)
                                EXCEPT !.log = ops]
    /\ UNCHANGED << raw_data, imu_vars, xg_vars, i2c_read_result, servo_vars, lego_vars,
                    nxt_vars,
                    as_state, as_info, as_pc, as_raw_data >>

ev3_analog_sensor_set_mode(mode) ==
    /\ as_state = "bound"
    /\ as_pc = SetModeIdle
    /\ IF mode >= as_info.num_modes
       THEN /\ last' = Call("ev3_analog_sensor_set_mode", mode, 0, -EINVAL, 0)
            /\ UNCHANGED << as_mode, in_port >>
       ELSE LET ops == SetModePortOps(as_info, mode)
            IN  /\ in_port' = PortAfterOps(in_port, ops)
                /\ as_mode' = mode
                /\ last' = [Call("ev3_analog_sensor_set_mode", mode, 0, 0, 0)
                                EXCEPT !.log = ops]
    /\ UNCHANGED << raw_data, imu_vars, xg_vars, i2c_read_result, servo_vars, lego_vars,
                    nxt_vars,
                    as_state, as_info, as_pc, as_raw_data >>

\* has_entry_id: sensor->entry_id is set; alloc_ok: kzalloc succeeded;
\* info: the definition copied into as->info; err: what register_msensor returns
ev3_analog_sensor_probe(has_entry_id, alloc_ok, info, err) ==
    /\ as_state = "unbound"
    /\ IF ~has_entry_id
       THEN /\ last' = Call("ev3_analog_sensor_probe", 0, 0, -EINVAL, 0)
            /\ UNCHANGED as_vars
       ELSE IF ~alloc_ok
       THEN /\ last' = [Call("ev3_analog_sensor_probe", 1, 0, -ENOMEM, 0)
                            EXCEPT !.log = << Op("kzalloc", 0, "NULL") >>]
            /\ UNCHANGED as_vars
       ELSE IF err # 0
       THEN /\ last' = [Call("ev3_analog_sensor_probe", 1, 1, err, 0)
                            EXCEPT !.log = RegisterFailedOps("register_msensor", "as", err)]
            /\ UNCHANGED as_vars
       ELSE LET ops == IF 0 >= info.num_modes THEN << >>
                       ELSE SetModePortOps(info, 0)
            IN  /\ as_state' = "bound"
                /\ as_info' = info
                /\ as_mode' = 0
                /\ as_raw_data' = [m \in 0 .. info.num_modes - 1 |-> 0]
                /\ UNCHANGED as_pc
                /\ in_port' = IF ops = << >> THEN in_port
                              ELSE PortAfterOps(in_port, ops)
                /\ last' = [Call("ev3_analog_sensor_probe", 1, 1, 0, 0)
                                EXCEPT !.log = << Op("kzalloc", 0, "as"),
                                                  Op("register_msensor", 0, "as"),
                                                  Op("dev_set_drvdata", 0, "as") >>
                                                \o ops]
    /\ UNCHANGED << raw_data, imu_vars, xg_vars, i2c_read_result, servo_vars,
                    lego_vars, nxt_vars >>

\* remove, first part: pin 5 floats and the analog callback is taken away
ev3_analog_sensor_remove_port ==
    /\ as_state = "bound"
    /\ in_port' = [pin5 |-> "FLOAT", analog_cb |-> "NULL", context |-> "NULL"]
    /\ as_state' = "rm_port"
    /\ last' = [Call("ev3_analog_sensor_remove", 0, 0, 0, 0)
                    EXCEPT !.log = << PortOp("set_pin5_gpio", "FLOAT"),
                                      PortOp("register_analog_cb", "NULL") >>]
    /\ UNCHANGED << raw_data, imu_vars, xg_vars, i2c_read_result, servo_vars,
                    lego_vars, nxt_vars, as_info, as_mode, as_pc, as_raw_data >>

\* remove, second part: unregister_msensor
ev3_analog_sensor_remove_unregister ==
    /\ as_state = "rm_port"
    /\ as_state' = "rm_unregistered"
    /\ last' = [last EXCEPT !.log = Append(@, Op("unregister_msensor", 0, "as"))]
    /\ UNCHANGED << raw_data, imu_vars, xg_vars, i2c_read_result, servo_vars,
                    lego_vars, nxt_vars, as_info, as_mode, as_pc, as_raw_data,
                    in_port >>

\* remove, last part: the drvdata is cleared and the data freed
ev3_analog_sensor_remove_free ==
    /\ as_state = "rm_unregistered"
    /\ as_state' = "unbound"
    /\ as_info' = NoInfo
    /\ as_mode' = 0
    /\ as_raw_data' = << >>
    /\ last' = [last EXCEPT !.log = @ \o << Op("dev_set_drvdata", 0, "NULL"),
                                           Op("kfree", 0, "as") >>]
    /\ UNCHANGED << raw_data, imu_vars, xg_vars, i2c_read_result, servo_vars,
                    lego_vars, nxt_vars, as_pc, in_port >>

ev3_analog_sensor_remove ==
    \/ ev3_analog_sensor_remove_port
    \/ ev3_analog_sensor_remove_unregister
    \/ ev3_analog_sensor_remove_free

\* the default analog callback, invoked by the port with the context it was
\* registered with: the pin 6 reading goes to the buffer of mode as->mode
ev3_analog_sensor_cb(mv) ==
    /\ as_state = "bound"
    /\ in_port.analog_cb = "ev3_analog_sensor_cb"
    /\ in_port.context = "as"
    /\ as_raw_data' = [as_raw_data EXCEPT ![as_mode] = mv]
    /\ last' = Call("ev3_analog_sensor_cb", mv, as_mode, 0, mv)
    /\ UNCHANGED << raw_data, imu_vars, xg_vars, i2c_read_result, servo_vars,
                    lego_vars, nxt_vars, as_state, as_info, as_mode, as_pc,
                    in_port >>

\* set_mode up to and including register_analog_cb: the range check, pin 5
\* and the registration of the callback of the new mode
ev3_analog_sensor_set_mode_register(mode) ==
    /\ as_state = "bound"
    /\ as_pc = SetModeIdle
    /\ IF mode >= as_info.num_modes
       THEN /\ last' = Call("ev3_analog_sensor_set_mode", mode, 0, -EINVAL, 0)
            /\ UNCHANGED << as_pc, in_port >>
       ELSE LET ops == SetModePortOps(as_info, mode)
            IN  /\ in_port' = PortAfterOps(in_port, ops)
                /\ as_pc' = [pc |-> "registered", mode |-> mode]
                /\ last' = [Call("ev3_analog_sensor_set_mode", mode, 0, 0, 0)
                                EXCEPT !.log = ops]
    /\ UNCHANGED << raw_data, imu_vars, xg_vars, i2c_read_result, servo_vars,
                    lego_vars, nxt_vars, as_state, as_info, as_mode,
                    as_raw_data >>

\* the rest of set_mode: as->mode = mode; return 0
ev3_analog_sensor_set_mode_assign ==
    /\ as_state = "bound"
    /\ as_pc.pc = "registered"
    /\ as_mode' = as_pc.mode
    /\ as_pc' = SetModeIdle
    /\ last' = Call("ev3_analog_sensor_set_mode", as_pc.mode, 0, 0, 0)
    /\ UNCHANGED << raw_data, imu_vars, xg_vars, i2c_read_result, servo_vars,
                    lego_vars, nxt_vars, as_state, as_info, as_raw_data,
                    in_port >>

\* the driver with the port's callback free to run between the steps of
\* set_mode
AnalogCbNext ==
    \/ \E info \in AnalogInfos : ev3_analog_sensor_probe(TRUE, TRUE, info, 0)
    \/ (as_pc = SetModeIdle /\ ev3_analog_sensor_remove)
    \/ \E mode \in 0 .. MaxModes : ev3_analog_sensor_set_mode_register(mode)
    \/ ev3_analog_sensor_set_mode_assign
    \/ \E mv \in Pin6Mv : ev3_analog_sensor_cb(mv)

AnalogNext ==
    \/ \E has_entry_id, alloc_ok \in BOOLEAN, info \in AnalogInfos,
          err \in {0} \cup NegErrnos :
            ev3_analog_sensor_probe(has_entry_id, alloc_ok, info, err)
    \/ ev3_analog_sensor_remove
    \/ ev3_analog_sensor_get_mode
    \/ \E mode \in 0 .. MaxModes + 1 : ev3_analog_sensor_set_mode(mode)

----------------------------------------------------------------------------
(* EV3 analog sensor driver (lego-class bus).                              *)

\* set_mode stores the mode's raw_data pointer with the port and then
\* returns -EINVAL on its only path
lego_ev3_analog_sensor_set_mode(mode) ==
    /\ la_state = "bound"
    /\ la_port_ptr' = RawDataPtr("la", mode)
    /\ last' = [Call("lego_ev3_analog_sensor_set_mode", mode, 0, -EINVAL, 0)
                    EXCEPT !.log = << Op("lego_port_set_raw_data_ptr_and_func",
                                         mode, "la") >>]
    /\ UNCHANGED << raw_data, imu_vars, xg_vars, i2c_read_result, servo_vars,
                    as_vars, config, la_state, la_num_modes, ua_vars, nxt_vars >>

\* num_modes: info.num_modes of the definition copied into the data;
\* err: what register_lego_sensor returns
lego_ev3_analog_sensor_probe(has_entry_id, alloc_ok, num_modes, err) ==
    /\ la_state = "unbound"
    /\ IF ~has_entry_id
       THEN /\ last' = Call("lego_ev3_analog_sensor_probe", 0, 0, -EINVAL, 0)
            /\ UNCHANGED la_vars
       ELSE IF ~alloc_ok
       THEN /\ last' = [Call("lego_ev3_analog_sensor_probe", 1, 0, -ENOMEM, 0)
                            EXCEPT !.log = << Op("kzalloc", 0, "NULL") >>]
            /\ UNCHANGED la_vars
       ELSE IF err # 0
       THEN /\ last' = [Call("lego_ev3_analog_sensor_probe", 1, 1, err, 0)
                            EXCEPT !.log = RegisterFailedOps("register_lego_sensor", "la", err)]
            /\ UNCHANGED la_vars
       ELSE /\ la_state' = "bound"
            /\ la_num_modes' = num_modes
            /\ la_port_ptr' = RawDataPtr("la", 0)
            /\ last' = [Call("lego_ev3_analog_sensor_probe", 1, 1, 0, 0)
                            EXCEPT !.log =
                                << Op("kzalloc", 0, "la"),
                                   Op("register_lego_sensor", 0, "la"),
                                   Op("dev_set_drvdata", 0, "la"),
                                   Op("lego_port_set_raw_data_ptr_and_func", 0, "la"),
                                   Op("set_mode_returned", -EINVAL, "la") >>]
    /\ UNCHANGED << raw_data, imu_vars, xg_vars, i2c_read_result, servo_vars,
                    as_vars, config, ua_vars, nxt_vars >>

\* remove, first part: the port's raw-data pointer is set to NULL
lego_ev3_analog_sensor_remove_port ==
    /\ la_state = "bound"
    /\ la_port_ptr' = NullPtr
    /\ la_state' = "rm_port"
    /\ last' = [Call("lego_ev3_analog_sensor_remove", 0, 0, 0, 0)
                    EXCEPT !.log = << Op("lego_port_set_raw_data_ptr_and_func",
                                         0, "NULL") >>]
    /\ UNCHANGED << raw_data, imu_vars, xg_vars, i2c_read_result, servo_vars,
                    as_vars, config, la_num_modes, ua_vars, nxt_vars >>

\* remove, second part: unregister_lego_sensor
lego_ev3_analog_sensor_remove_unregister ==
    /\ la_state = "rm_port"
    /\ la_state' = "rm_unregistered"
    /\ last' = [last EXCEPT !.log = Append(@, Op("unregister_lego_sensor", 0, "la"))]
    /\ UNCHANGED << raw_data, imu_vars, xg_vars, i2c_read_result, servo_vars,
                    as_vars, config, la_num_modes, la_port_ptr, ua_vars, nxt_vars >>

\* remove, last part: the drvdata is cleared and the data freed
lego_ev3_analog_sensor_remove_free ==
    /\ la_state = "rm_unregistered"
    /\ la_state' = "unbound"
    /\ la_num_modes' = 0
    /\ last' = [last EXCEPT !.log = @ \o << Op("dev_set_drvdata", 0, "NULL"),
                                           Op("kfree", 0, "la") >>]
    /\ UNCHANGED << raw_data, imu_vars, xg_vars, i2c_read_result, servo_vars,
                    as_vars, config, la_port_ptr, ua_vars, nxt_vars >>

lego_ev3_analog_sensor_remove ==
    \/ lego_ev3_analog_sensor_remove_port
    \/ lego_ev3_analog_sensor_remove_unregister
    \/ lego_ev3_analog_sensor_remove_free

LegoAnalogNext ==
    \/ \E has_entry_id, alloc_ok \in BOOLEAN, num_modes \in 1 .. MaxModes,
          err \in {0} \cup NegErrnos :
            lego_ev3_analog_sensor_probe(has_entry_id, alloc_ok, num_modes, err)
    \/ lego_ev3_analog_sensor_remove
    \/ \E mode \in 0 .. la_num_modes - 1 : lego_ev3_analog_sensor_set_mode(mode)

----------------------------------------------------------------------------
(* EV3 UART sensor driver.                                                 *)

\* the types of port a UART sensor device can sit on
PortTypes == {"ms_ev3_smux_port_type", "brickpi_in_port_type", "ev3_input_port_type"}

Configs == [nxt_i2c : BOOLEAN, brickpi : BOOLEAN]

\* the mux port type exists only in a kernel built with the NXT I2C sensors
\* (the mux is one of them), the BrickPi port type only in one built with
\* BrickPi support
PortTypesOf(cfg) ==
    {"ev3_input_port_type"}
        \cup (IF cfg.nxt_i2c THEN {"ms_ev3_smux_port_type"} ELSE {})
        \cup (IF cfg.brickpi THEN {"brickpi_in_port_type"} ELSE {})

\* data->info before probe copies a definition into it
NoUartInfo == [num_modes |-> 0, num_view_modes |-> 0]

\* what ev3_uart_sensor_set_mode returns, given what the mode switch of the
\* mux or of the BrickPi returns (mux_ret): the #if/else-if chain
UartSetModeRet(cfg, port_type, mux_ret) ==
    IF cfg.nxt_i2c /\ port_type = "ms_ev3_smux_port_type"
    THEN (IF mux_ret < 0 THEN mux_ret ELSE 0)
    ELSE IF cfg.brickpi /\ port_type = "brickpi_in_port_type"
    THEN (IF mux_ret < 0 THEN mux_ret ELSE 0)
    ELSE -EINVAL

\* the log of one set_mode call
UartSetModeOps(cfg, port_type, mode, mux_ret) ==
    (IF cfg.nxt_i2c /\ port_type = "ms_ev3_smux_port_type"
     THEN << Op("ms_ev3_smux_set_uart_sensor_mode", mux_ret, "ua") >>
     ELSE IF cfg.brickpi /\ port_type = "brickpi_in_port_type"
     THEN << Op("brickpi_in_port_set_uart_sensor_mode", mux_ret, "ua") >>
     ELSE << >>)
    \o (IF UartSetModeRet(cfg, port_type, mux_ret) = 0
        THEN << Op("lego_port_set_raw_data_ptr_and_func", mode, "ua") >>
        ELSE << >>)

\* a variant that stores the pointer before the mode switch is checked
UartPtrAfterSetMode_first(ptr, cfg, port_type, mode, mux_ret) ==
    IF UartSetModeRet(cfg, port_type, mux_ret) # -EINVAL
    THEN RawDataPtr("ua", mode)
    ELSE ptr

\* the port's raw-data pointer after one set_mode call
UartPtrAfterSetMode(ptr, cfg, port_type, mode, mux_ret) ==
    IF UartSetModeRet(cfg, port_type, mux_ret) = 0
    THEN RawDataPtr("ua", mode)
    ELSE ptr

ev3_uart_sensor_set_mode(mode, mux_ret) ==
    /\ ua_state = "bound"
    /\ ua_port_ptr' = UartPtrAfterSetMode(ua_port_ptr, config, ua_port_type,
                                          mode, mux_ret)
    /\ last' = [Call("ev3_uart_sensor_set_mode", mode, 0,
                     UartSetModeRet(config, ua_port_type, mux_ret), 0)
                    EXCEPT !.log = UartSetModeOps(config, ua_port_type, mode, mux_ret)]
    /\ UNCHANGED << raw_data, imu_vars, xg_vars, i2c_read_result, servo_vars,
                    as_vars, config, la_vars, ua_state, ua_port_type,
                    ua_num_modes, ua_info, nxt_vars >>

\* a probe that exposes all modes on every port
UartNumModes_all(cfg, port_type, num_modes, num_view_modes) ==
    num_modes

\* sensor.num_modes as probe sets it
UartNumModes(cfg, port_type, num_modes, num_view_modes) ==
    IF cfg.nxt_i2c /\ port_type = "ms_ev3_smux_port_type"
    THEN num_view_modes
    ELSE num_modes

\* port_type: the type of ldev->port; num_modes, num_view_modes: of the
\* definition copied into data->info; err: what register_lego_sensor returns;
\* mux_ret: what the mode switch made by set_mode(0) returns
ev3_uart_sensor_probe(has_entry_id, alloc_ok, port_type, num_modes, num_view_modes, err, mux_ret) ==
    /\ ua_state = "unbound"
    /\ IF ~has_entry_id
       THEN /\ last' = Call("ev3_uart_sensor_probe", 0, 0, -EINVAL, 0)
            /\ UNCHANGED ua_vars
       ELSE IF ~alloc_ok
       THEN /\ last' = [Call("ev3_uart_sensor_probe", 1, 0, -ENOMEM, 0)
                            EXCEPT !.log = << Op("kzalloc", 0, "NULL") >>]
            /\ UNCHANGED ua_vars
       ELSE IF err # 0
       THEN /\ last' = [Call("ev3_uart_sensor_probe", 1, 1, err, 0)
                            EXCEPT !.log = RegisterFailedOps("register_lego_sensor", "ua", err)]
            /\ UNCHANGED ua_vars
       ELSE /\ ua_state' = "bound"
            /\ ua_port_type' = port_type
            /\ ua_info' = [num_modes |-> num_modes, num_view_modes |-> num_view_modes]
            /\ ua_num_modes' = UartNumModes(config, port_type, num_modes,
                                            num_view_modes)
            /\ ua_port_ptr' = UartPtrAfterSetMode(ua_port_ptr, config, port_type,
                                                  0, mux_ret)
            /\ last' = [Call("ev3_uart_sensor_probe", 1, 1, 0, 0)
                            EXCEPT !.log =
                                << Op("kzalloc", 0, "ua"),
                                   Op("register_lego_sensor", 0, "ua"),
                                   Op("dev_set_drvdata", 0, "ua") >>
                                \o UartSetModeOps(config, port_type, 0, mux_ret)
                                \o << Op("set_mode_returned",
                                         UartSetModeRet(config, port_type, mux_ret),
                                         "ua") >>]
    /\ UNCHANGED << raw_data, imu_vars, xg_vars, i2c_read_result, servo_vars,
                    as_vars, config, la_vars, nxt_vars >>

\* a remove that leaves the port's raw-data pointer as it is
ev3_uart_sensor_remove_port_keep ==
    /\ ua_state = "bound"
    /\ ua_state' = "rm_port"
    /\ last' = Call("ev3_uart_sensor_remove", 0, 0, 0, 0)
    /\ UNCHANGED << raw_data, imu_vars, xg_vars, i2c_read_result, servo_vars,
                    as_vars, config, la_vars, ua_port_type, ua_num_modes, ua_info,
                    ua_port_ptr, nxt_vars >>

\* remove, first part: the port's raw-data pointer is set to NULL
ev3_uart_sensor_remove_port ==
    /\ ua_state = "bound"
    /\ ua_port_ptr' = NullPtr
    /\ ua_state' = "rm_port"
    /\ last' = [Call("ev3_uart_sensor_remove", 0, 0, 0, 0)
                    EXCEPT !.log = << Op("lego_port_set_raw_data_ptr_and_func",
                                         0, "NULL") >>]
    /\ UNCHANGED << raw_data, imu_vars, xg_vars, i2c_read_result, servo_vars,
                    as_vars, config, la_vars, ua_port_type, ua_num_modes, ua_info,
                    nxt_vars >>

\* remove, second part: unregister_lego_sensor
ev3_uart_sensor_remove_unregister ==
    /\ ua_state = "rm_port"
    /\ ua_state' = "rm_unregistered"
    /\ last' = [last EXCEPT !.log = Append(@, Op("unregister_lego_sensor", 0, "ua"))]
    /\ UNCHANGED << raw_data, imu_vars, xg_vars, i2c_read_result, servo_vars,
                    as_vars, config, la_vars, ua_port_type, ua_num_modes, ua_info,
                    ua_port_ptr, nxt_vars >>

\* remove, last part: the drvdata is cleared and the data freed
ev3_uart_sensor_remove_free ==
    /\ ua_state = "rm_unregistered"
    /\ ua_state' = "unbound"
    /\ ua_port_type' = "none"
    /\ ua_num_modes' = 0
    /\ ua_info' = NoUartInfo
    /\ last' = [last EXCEPT !.log = @ \o << Op("dev_set_drvdata", 0, "NULL"),
                                           Op("kfree", 0, "ua") >>]
    /\ UNCHANGED << raw_data, imu_vars, xg_vars, i2c_read_result, servo_vars,
                    as_vars, config, la_vars, ua_port_ptr, nxt_vars >>

ev3_uart_sensor_remove ==
    \/ ev3_uart_sensor_remove_port
    \/ ev3_uart_sensor_remove_unregister
    \/ ev3_uart_sensor_remove_free

UartNext ==
    \/ \E has_entry_id, alloc_ok \in BOOLEAN, port_type \in PortTypesOf(config),
          num_modes \in 1 .. MaxModes, err, mux_ret \in {0} \cup NegErrnos :
            \E num_view_modes \in 1 .. num_modes :
                ev3_uart_sensor_probe(has_entry_id, alloc_ok, port_type,
                                      num_modes, num_view_modes, err, mux_ret)
    \/ ev3_uart_sensor_remove
    \/ \E mode \in 0 .. ua_num_modes - 1, mux_ret \in {0} \cup NegErrnos :
            ev3_uart_sensor_set_mode(mode, mux_ret)

\* one sensor sits on the port at a time: a driver probes only while no other
\* driver is bound
LifecycleNext ==
    \/ (la_state = "unbound" /\ ua_state = "unbound" /\ AnalogNext)
    \/ (as_state = "unbound" /\ ua_state = "unbound" /\ LegoAnalogNext)
    \/ (as_state = "unbound" /\ la_state = "unbound" /\ UartNext)

----------------------------------------------------------------------------
(* The sensor definition table nxt_i2c_sensor_defs: for each sensor its     *)
(* num_modes and num_commands, the declared mode_info entries (data_type,   *)
(* raw_min, raw_max; a field the initialiser leaves out is 0 / "unset") and *)
(* the number of declared entries of the other three arrays.                *)

ModeInfo(data_type, raw_min, raw_max) ==
    [data_type |-> data_type, raw_min |-> raw_min, raw_max |-> raw_max]

SensorInfo(name, num_modes, mode_info, i2c_mode_info, num_commands, cmd_info, i2c_cmd_info) ==
    [name |-> name, num_modes |-> num_modes, mode_info |-> mode_info,
     i2c_mode_info |-> i2c_mode_info, num_commands |-> num_commands,
     cmd_info |-> cmd_info, i2c_cmd_info |-> i2c_cmd_info]

nxt_i2c_sensor_defs == <<
    SensorInfo("LEGO_NXT_ULTRASONIC_SENSOR", 5,
        << ModeInfo("unset", 0, 0),
           ModeInfo("unset", 0, 0),
           ModeInfo("unset", 0, 0),
           ModeInfo("unset", 0, 0),
           ModeInfo("unset", 0, 1) >>,
        5, 0, 0, 0),
    SensorInfo("LEGO_POWER_STORAGE_SENSOR", 8,
        << ModeInfo("S16_BE", 0, 10000),
           ModeInfo("S16_BE", 0, 10000),
           ModeInfo("S16_BE", 0, 10000),
           ModeInfo("S16_BE", 0, 10000),
           ModeInfo("S16_BE", 0, 100),
           ModeInfo("S16_BE", 0, 10000),
           ModeInfo("S16_BE", 0, 10000),
           ModeInfo("S16_BE", 0, 10000) >>,
        8, 0, 0, 0),
    SensorInfo("HT_NXT_PIR_SENSOR", 1,
        << ModeInfo("unset", 0, 0) >>,
        1, 0, 0, 0),
    SensorInfo("HT_NXT_BAROMETRIC_SENSOR", 2,
        << ModeInfo("unset", 30400, 29400),
           ModeInfo("unset", 0, 1000) >>,
        2, 0, 0, 0),
    SensorInfo("HT_NXT_IR_SEEKER_SENSOR_V2", 4,
        << ModeInfo("unset", 0, 9),
           ModeInfo("unset", 0, 9),
           ModeInfo("unset", 0, 0),
           ModeInfo("unset", 0, 0) >>,
        4, 0, 0, 0),
    SensorInfo("HT_NXT_COLOR_SENSOR", 7,
        << ModeInfo("unset", 0, 17),
           ModeInfo("unset", 0, 0),
           ModeInfo("unset", 0, 0),
           ModeInfo("unset", 0, 0),
           ModeInfo("U16", 0, 65535),
           ModeInfo("unset", 0, 0),
           ModeInfo("unset", 0, 0) >>,
        7, 0, 0, 0),
    SensorInfo("HT_NXT_COLOR_SENSOR_V2", 8,
        << ModeInfo("unset", 0, 17),
           ModeInfo("unset", 0, 0),
           ModeInfo("unset", 0, 0),
           ModeInfo("unset", 0, 0),
           ModeInfo("unset", 0, 0),
           ModeInfo("unset", 0, 0),
           ModeInfo("unset", 0, 0),
           ModeInfo("U16", 0, 65535) >>,
        8, 0, 0, 0),
    SensorInfo("HT_NXT_ANGLE_SENSOR", 3,
        << ModeInfo("unset", 0, 180),
           ModeInfo("S32", (-2147483647 - 1), 2147483647),
           ModeInfo("S16", (-32768), 32767) >>,
        3, 2, 2, 2),
    SensorInfo("HT_NXT_COMPASS_SENSOR", 1,
        << ModeInfo("S8", 0, 180) >>,
        1, 0, 0, 0),
    SensorInfo("HT_NXT_IR_RECEIVER_SENSOR", 2,
        << ModeInfo("S8", 0, 0),
           ModeInfo("S8", 0, 0) >>,
        2, 0, 0, 0),
    SensorInfo("HT_NXT_ACCELERATION_TILT_SENSOR", 2,
        << ModeInfo("unset", 0, 0),
           ModeInfo("unset", 0, 0) >>,
        2, 0, 0, 0),
    SensorInfo("HT_NXT_IR_LINK_SENSOR", 1,
        << ModeInfo("unset", 0, 0) >>,
        1, 0, 0, 0),
    SensorInfo("HT_NXT_SUPER_PRO_SENSOR", 5,
        << ModeInfo("U16", 0, 0),
           ModeInfo("unset", 0, 0),
           ModeInfo("unset", 0, 0),
           ModeInfo("unset", 0, 0),
           ModeInfo("unset", 0, 0),
           ModeInfo("unset", 0, 0),
           ModeInfo("unset", 0, 0),
           ModeInfo("unset", 0, 0) >>,
        8, 0, 0, 0),
    SensorInfo("HT_NXT_SENSOR_MUX", 1,
        << ModeInfo("unset", 0, 0) >>,
        3, 3, 3, 3),
    SensorInfo("MS_8CH_SERVO", 2,
        << ModeInfo("unset", 127, 255),
           ModeInfo("unset", 127, 255) >>,
        2, 0, 0, 0),
    SensorInfo("MS_ABSOLUTE_IMU", 6,
        << ModeInfo("U8", 0, 0),
           ModeInfo("S16", 0, 0),
           ModeInfo("U16", 0, 0),
           ModeInfo("S16", 0, 0),
           ModeInfo("S16", 0, 10000),
           ModeInfo("unset", 0, 0) >>,
        6, 6, 6, 6),
    SensorInfo("MS_ANGLE_SENSOR", 4,
        << ModeInfo("S32", 0, 0),
           ModeInfo("S32", 0, 360),
           ModeInfo("S16", 0, 100),
           ModeInfo("S32", 0, 100) >>,
        4, 1, 1, 1),
    SensorInfo("MS_EV3_SENSOR_MUX", 2,
        << ModeInfo("unset", 0, 0) >>,
        1, 0, 0, 0),
    SensorInfo("MS_LIGHT_SENSOR_ARRAY", 2,
        << ModeInfo("unset", 0, 100),
           ModeInfo("S16", 0, 65535) >>,
        2, 7, 7, 7),
    SensorInfo("MS_LINE_LEADER", 4,
        << ModeInfo("S8", 0, 0),
           ModeInfo("S8", 0, 0),
           ModeInfo("unset", 0, 100),
           ModeInfo("S16", 0, 65535) >>,
        4, 10, 10, 10),
    SensorInfo("MS_NXTMMX", 2,
        << ModeInfo("unset", 0, 255),
           ModeInfo("unset", 0, 255) >>,
        2, 0, 0, 0),
    SensorInfo("MI_CRUIZCORE_XG1300L", 4,
        << ModeInfo("S16", 0, 0),
           ModeInfo("S16", 0, 0),
           ModeInfo("S16", 0, 0),
           ModeInfo("S16", 0, 0) >>,
        4, 4, 4, 4) >>

NxtSensorTypes == 1 .. Len(nxt_i2c_sensor_defs)

\* the values a raw sample of a data type can take
DataTypeRange(data_type) ==
    CASE data_type = "U8" -> [lo |-> 0, hi |-> 255]
      [] data_type = "S8" -> [lo |-> -128, hi |-> 127]
      [] data_type = "U16" -> [lo |-> 0, hi |-> 65535]
      [] data_type \in {"S16", "S16_BE"} -> [lo |-> -32768, hi |-> 32767]
      [] data_type = "S32" -> [lo |-> -2147483647 - 1, hi |-> 2147483647]

\* the defaults of the fields a definition leaves out: raw_max 255 for a raw
\* range left at 0, data_type U8
ApplyDefaults(mode_info) ==
    [mode_info EXCEPT
        !.raw_max = IF mode_info.raw_min = 0 /\ mode_info.raw_max = 0
                    THEN 255 ELSE @,
        !.data_type = IF @ = "unset" THEN "U8" ELSE @]

\* the host binds a sensor of one type: mode [0] is the default mode
nxt_i2c_sensor_probe(type) ==
    /\ nxt_sensor = 0
    /\ nxt_sensor' = type
    /\ nxt_mode' = 0
    /\ last' = Call("nxt_i2c_sensor_probe", type, 0, 0, 0)
    /\ UNCHANGED << raw_data, imu_vars, xg_vars, i2c_read_result, servo_vars,
                    as_vars, lego_vars >>

\* the host's current-mode selector: modes 0 .. num_modes - 1 can be selected
nxt_i2c_sensor_set_mode(mode) ==
    /\ nxt_sensor # 0
    /\ mode < nxt_i2c_sensor_defs[nxt_sensor].num_modes
    /\ nxt_mode' = mode
    /\ last' = Call("nxt_i2c_sensor_set_mode", mode, 0, 0, 0)
    /\ UNCHANGED << raw_data, imu_vars, xg_vars, i2c_read_result, servo_vars,
                    as_vars, lego_vars, nxt_sensor >>

nxt_i2c_sensor_remove ==
    /\ nxt_sensor # 0
    /\ nxt_sensor' = 0
    /\ nxt_mode' = 0
    /\ last' = Call("nxt_i2c_sensor_remove", nxt_sensor, 0, 0, 0)
    /\ UNCHANGED << raw_data, imu_vars, xg_vars, i2c_read_result, servo_vars,
                    as_vars, lego_vars >>

DefsNext ==
    \/ \E type \in NxtSensorTypes : nxt_i2c_sensor_probe(type)
    \/ /\ nxt_sensor # 0
       /\ \E mode \in 0 .. nxt_i2c_sensor_defs[nxt_sensor].num_modes - 1 :
            nxt_i2c_sensor_set_mode(mode)
    \/ nxt_i2c_sensor_remove

----------------------------------------------------------------------------
(* Initial states.                                                         *)

InitIdle ==
    /\ raw_data = [k \in 0 .. 31 |-> 0]
    /\ imu_mode_info = imu_mode_info_init
    /\ xg_state = "unbound"
    /\ xg_callback_data = "NULL"
    /\ xg_scaling_factor = 0
    /\ xg_mode = 0
    /\ i2c_read_result = 0
    /\ as_state = "unbound"
    /\ as_info = NoInfo
    /\ as_mode = 0
    /\ as_pc = SetModeIdle
    /\ as_raw_data = << >>
    /\ in_port = [pin5 |-> "FLOAT", analog_cb |-> "NULL", context |-> "NULL"]
    /\ servo_state = "unbound"
    /\ servo_registered = {}
    /\ servo_callback_data = "NULL"
    /\ servo_poll_ms = 0
    /\ config = [nxt_i2c |-> TRUE, brickpi |-> TRUE]
    /\ la_state = "unbound"
    /\ la_num_modes = 0
    /\ la_port_ptr = NullPtr
    /\ ua_state = "unbound"
    /\ ua_port_type = "none"
    /\ ua_num_modes = 0
    /\ ua_info = NoUartInfo
    /\ ua_port_ptr = NullPtr
    /\ nxt_sensor = 0
    /\ nxt_mode = 0
    /\ last = NoCall

InitImu ==
    /\ raw_data \in RawBuffers
    /\ imu_mode_info = imu_mode_info_init
    /\ xg_state = "unbound"
    /\ xg_callback_data = "NULL"
    /\ xg_scaling_factor = 0
    /\ xg_mode = 0
    /\ i2c_read_result = 0
    /\ as_state = "unbound"
    /\ as_info = NoInfo
    /\ as_mode = 0
    /\ as_pc = SetModeIdle
    /\ as_raw_data = << >>
    /\ in_port = [pin5 |-> "FLOAT", analog_cb |-> "NULL", context |-> "NULL"]
    /\ servo_state = "unbound"
    /\ servo_registered = {}
    /\ servo_callback_data = "NULL"
    /\ servo_poll_ms = 0
    /\ config = [nxt_i2c |-> TRUE, brickpi |-> TRUE]
    /\ la_state = "unbound"
    /\ la_num_modes = 0
    /\ la_port_ptr = NullPtr
    /\ ua_state = "unbound"
    /\ ua_port_type = "none"
    /\ ua_num_modes = 0
    /\ ua_info = NoUartInfo
    /\ ua_port_ptr = NullPtr
    /\ nxt_sensor = 0
    /\ nxt_mode = 0
    /\ last = NoCall

InitServo ==
    /\ raw_data = [k \in 0 .. 31 |-> 0]
    /\ imu_mode_info = imu_mode_info_init
    /\ xg_state = "unbound"
    /\ xg_callback_data = "NULL"
    /\ xg_scaling_factor = 0
    /\ xg_mode = 0
    /\ i2c_read_result \in I2cReadResults
    /\ as_state = "unbound"
    /\ as_info = NoInfo
    /\ as_mode = 0
    /\ as_pc = SetModeIdle
    /\ as_raw_data = << >>
    /\ in_port = [pin5 |-> "FLOAT", analog_cb |-> "NULL", context |-> "NULL"]
    /\ servo_state = "unbound"
    /\ servo_registered = {}
    /\ servo_callback_data = "NULL"
    /\ servo_poll_ms = 0
    /\ config = [nxt_i2c |-> TRUE, brickpi |-> TRUE]
    /\ la_state = "unbound"
    /\ la_num_modes = 0
    /\ la_port_ptr = NullPtr
    /\ ua_state = "unbound"
    /\ ua_port_type = "none"
    /\ ua_num_modes = 0
    /\ ua_info = NoUartInfo
    /\ ua_port_ptr = NullPtr
    /\ nxt_sensor = 0
    /\ nxt_mode = 0
    /\ last = NoCall

SpecServo == InitServo /\ [][ServoNext]_vars

\* the drivers of the sensor on one port, under every kernel configuration
InitLifecycle ==
    /\ raw_data = [k \in 0 .. 31 |-> 0]
    /\ imu_mode_info = imu_mode_info_init
    /\ xg_state = "unbound"
    /\ xg_callback_data = "NULL"
    /\ xg_scaling_factor = 0
    /\ xg_mode = 0
    /\ i2c_read_result = 0
    /\ servo_state = "unbound"
    /\ servo_registered = {}
    /\ servo_callback_data = "NULL"
    /\ servo_poll_ms = 0
    /\ as_state = "unbound"
    /\ as_info = NoInfo
    /\ as_mode = 0
    /\ as_pc = SetModeIdle
    /\ as_raw_data = << >>
    /\ in_port = [pin5 |-> "FLOAT", analog_cb |-> "NULL", context |-> "NULL"]
    /\ config \in Configs
    /\ la_state = "unbound"
    /\ la_num_modes = 0
    /\ la_port_ptr = NullPtr
    /\ ua_state = "unbound"
    /\ ua_port_type = "none"
    /\ ua_num_modes = 0
    /\ ua_info = NoUartInfo
    /\ ua_port_ptr = NullPtr
    /\ nxt_sensor = 0
    /\ nxt_mode = 0
    /\ last = NoCall

SpecLifecycle == InitLifecycle /\ [][LifecycleNext]_vars

SpecDefs == InitIdle /\ [][DefsNext]_vars

SpecServoCtl == InitIdle /\ [][ServoCtlNext]_vars

SpecAnalog == InitIdle /\ [][AnalogNext]_vars

SpecAnalogCb == InitIdle /\ [][AnalogCbNext]_vars

SpecImu == InitImu /\ [][ImuNext]_vars

SpecXg == InitImu /\ [][XgNext]_vars

Next == ImuNext \/ XgNext

Spec == InitImu /\ [][Next]_vars

----------------------------------------------------------------------------
(* Properties.                                                             *)

GyroPair == << imu_mode_info[4].raw_max, imu_mode_info[4].si_max >>

\* C1: every entry of the tilt table ms_imu_tilt2deg, for raw bytes 0..255,
\* lies in 0..180, and the table is non-decreasing over its whole index range;
\* so every value ms_imu_scale stores lies in 0..180.
C1_TiltTableMonotoneBounded ==
    /\ \A x \in 1 .. Len(ms_imu_tilt2deg) :
            ms_imu_tilt2deg[x] >= 0 /\ ms_imu_tilt2deg[x] <= 180
    /\ \A x \in 1 .. Len(ms_imu_tilt2deg) - 1 :
            ms_imu_tilt2deg[x] <= ms_imu_tilt2deg[x + 1]
    /\ (last.name = "ms_imu_scale" => last.value >= 0 /\ last.value <= 180)

C1_Witness ==
    /\ last.name = "ms_imu_scale"
    /\ raw_data[last.index] = 255
    /\ last.value = 180

\* C2: ms_imu_scale indexes a table of exactly 256 entries with the raw byte
\* of the requested channel: for each channel 0..2 and each raw byte the read
\* stays inside the table, the value is table[raw_data[index]], and it returns 0.
C2_TiltScaleDirectIndex ==
    /\ Len(ms_imu_tilt2deg) = 256
    /\ last.name = "ms_imu_scale" =>
            /\ last.index \in 0 .. 2
            /\ ~last.fault
            /\ last.value = ms_imu_tilt2deg[raw_data[last.index] + 1]
            /\ last.ret = 0

C2_Witness ==
    /\ last.name = "ms_imu_scale"
    /\ last.index = 2
    /\ raw_data[2] = 128
    /\ raw_data[0] # 128
    /\ last.value = 90

\* C4 (as claimed): after ACCEL-2G (2) the GYRO pair (raw_max, si_max) is
\* (10000, 875), after ACCEL-4G (3) it is (1000, 175), after ACCEL-8G (4) or
\* ACCEL-16G (5) it is (1000, 700), and a scale of GYRO data uses the pair.
C4_RangeCommandSetsGyroPair ==
    /\ last.name = "ms_imu_send_cmd_post_cb" =>
            /\ last.arg = imu_cmd_index.ACCEL_2G => GyroPair = << 10000, 875 >>
            /\ last.arg = imu_cmd_index.ACCEL_4G => GyroPair = << 1000, 175 >>
            /\ last.arg = imu_cmd_index.ACCEL_8G => GyroPair = << 1000, 700 >>
            /\ last.arg = imu_cmd_index.ACCEL_16G => GyroPair = << 1000, 700 >>
    /\ last.name = "imu_gyro_scale" =>
            last.value = lego_sensor_default_scale(
                            [DefaultModeInfo EXCEPT !.raw_max = GyroPair[1],
                                                    !.si_max = GyroPair[2]],
                            S16At(raw_data, last.index))

\* C5 (as claimed): BEGIN-COMP-CAL (0) and END-COMP-CAL (1) leave the GYRO
\* pair (raw_max, si_max) as it was.
C5_CalCommandsKeepGyroPair ==
    [][ (last'.name = "ms_imu_send_cmd_post_cb"
            /\ last'.arg \in {imu_cmd_index.BEGIN_COMP_CAL,
                              imu_cmd_index.END_COMP_CAL})
        => GyroPair' = GyroPair ]_vars

\* C6: no scale operation (ms_imu_scale, mi_xg1300l_scale) changes the
\* Absolute-IMU mode_info or the XG1300L scaling factor, and no step at all
\* changes raw_max or si_max (or the minima) of an IMU mode other than GYRO.
C6_ScalePreservesFullScale ==
    [][ /\ last'.name \in {"ms_imu_scale", "mi_xg1300l_scale", "imu_gyro_scale"}
            => /\ imu_mode_info' = imu_mode_info
               /\ xg_scaling_factor' = xg_scaling_factor
        /\ \A m \in (0 .. 5) \ {4} : imu_mode_info'[m] = imu_mode_info[m] ]_vars

C6_Witness ==
    /\ last.name = "mi_xg1300l_scale"
    /\ xg_scaling_factor = 4
    /\ GyroPair = << 1000, 700 >>

\* C7: after XG1300L command RESET (0) or ACCEL-2G (1) the factor is 1, after
\* ACCEL-4G (2) it is 2, after ACCEL-8G (3) it is 4; only a command or the
\* probe/remove pair changes the factor, and a scale in ACCEL mode (2) returns
\* raw_s16[index] * factor for each of the 3 channels.
C7_XgFactorFollowsCommand ==
    /\ [](/\ (last.name = "mi_xg1300l_send_cmd_post_cb" /\ last.arg \in 0 .. 3)
                => xg_scaling_factor = << 1, 1, 2, 4 >>[last.arg + 1]
          /\ (last.name = "mi_xg1300l_scale" /\ last.arg = 2)
                => /\ last.index \in 0 .. 2
                   /\ last.ret = 0
                   /\ last.value = S16At(raw_data, last.index) * xg_scaling_factor)
    /\ [][ last'.name \in {"mi_xg1300l_scale", "xg_set_mode"}
            => xg_scaling_factor' = xg_scaling_factor ]_vars

C7_Witness ==
    /\ last.name = "mi_xg1300l_scale"
    /\ last.arg = 2
    /\ last.index = 2
    /\ xg_scaling_factor = 4
    /\ S16At(raw_data, 2) < 0
    /\ last.value = 4 * S16At(raw_data, 2)

\* C8: in the XG1300L ALL mode (3), channels 0 and 1 return the result of the
\* default linear scaler whatever the scaling factor is, and channels 2, 3, 4
\* return raw_s16[index] * factor.
C8_XgAllModeBypass ==
    (last.name = "mi_xg1300l_scale" /\ last.arg = 3) =>
        /\ last.index \in 0 .. 4
        /\ last.index < 2 =>
                last.value = lego_sensor_default_scale(xg_mode_info[3],
                                                       S16At(raw_data, last.index))
        /\ last.index >= 2 =>
                last.value = S16At(raw_data, last.index) * xg_scaling_factor

C8_Witness ==
    /\ last.name = "mi_xg1300l_scale"
    /\ last.arg = 3
    /\ last.index = 1
    /\ xg_scaling_factor = 4
    /\ S16At(raw_data, 1) # 0
    /\ last.value = S16At(raw_data, 1)

\* C3: ms_8ch_servo_get_rate returns 0 when the period register reads 0, and
\* for a period p in 1..65535 returns a rate with 0 <= 24000 - rate * p < p.
C3_RateTimesPeriod ==
    last.name = "ms_8ch_servo_get_rate" =>
        /\ i2c_read_result = 0 => last.ret = 0
        /\ i2c_read_result > 0 =>
                /\ 24000 - last.ret * i2c_read_result >= 0
                /\ 24000 - last.ret * i2c_read_result < i2c_read_result

C3_Witness ==
    /\ last.name = "ms_8ch_servo_get_rate"
    /\ i2c_read_result = 7
    /\ last.ret = 3428

\* C9: when the word read fails, get_rate and get_position return the same
\* negative code, after exactly one bus read and no bus write, and change
\* nothing else.
C9_ReadErrorPropagated ==
    /\ []((last.name \in {"ms_8ch_servo_get_rate", "ms_8ch_servo_get_position"}
            /\ i2c_read_result < 0)
          => /\ last.ret = i2c_read_result
             /\ Len(last.log) = 1
             /\ last.log[1].op = "read_word")
    /\ [][ last'.name \in {"ms_8ch_servo_get_rate", "ms_8ch_servo_get_position"}
            => UNCHANGED << raw_data, imu_vars, xg_vars, as_vars,
                            i2c_read_result, servo_vars, lego_vars,
                    nxt_vars >> ]_vars

C9_Witness ==
    /\ last.name = "ms_8ch_servo_get_rate"
    /\ i2c_read_result = -5
    /\ last.ret = -5

\* C10: ev3_analog_sensor_set_mode with mode >= num_modes returns -EINVAL
\* with no port access: pin 5, the registered analog callback and the current
\* mode stay as they were.
C10_InvalidModeRejected ==
    [][ (as_state = "bound"
            /\ last'.name = "ev3_analog_sensor_set_mode"
            /\ last'.arg >= as_info.num_modes)
        => /\ last'.ret = -EINVAL
           /\ last'.log = << >>
           /\ in_port' = in_port
           /\ as_mode' = as_mode ]_vars

C10_Witness ==
    /\ last.name = "ev3_analog_sensor_set_mode"
    /\ last.arg >= as_info.num_modes
    /\ last.ret = -EINVAL
    /\ as_mode = 1
    /\ in_port.context = "as"

\* C11 (as claimed): whenever the lego-class ev3_analog_sensor_set_mode
\* returns -EINVAL, the port's raw-data pointer registration is the same as
\* before the call and the port was not accessed.
C11_EinvalLeavesPortPtr ==
    [][ (last'.name = "lego_ev3_analog_sensor_set_mode" /\ last'.ret = -EINVAL)
        => /\ la_port_ptr' = la_port_ptr
           /\ OpIndexes(last'.log, "lego_port_set_raw_data_ptr_and_func") = {} ]_vars

\* C12: whenever ev3_uart_sensor_set_mode returns a negative value, that value
\* is the mode switch's error or -EINVAL (always -EINVAL on a port that is
\* neither an ms-ev3-smux nor a BrickPi input port), and the port's raw-data
\* pointer is unchanged; the pointer is set to the selected mode's raw_data
\* exactly on the path that returns 0.
C12_UartPtrSetOnlyOnSuccess ==
    [][ (ua_state = "bound" /\ last'.name = "ev3_uart_sensor_set_mode")
        => /\ last'.ret <= 0
           /\ last'.ret < 0 =>
                /\ ua_port_ptr' = ua_port_ptr
                /\ OpIndexes(last'.log, "lego_port_set_raw_data_ptr_and_func") = {}
                /\ \/ last'.ret = -EINVAL /\ last'.log = << >>
                   \/ /\ Len(last'.log) = 1
                      /\ last'.log[1].op \in {"ms_ev3_smux_set_uart_sensor_mode",
                                              "brickpi_in_port_set_uart_sensor_mode"}
                      /\ last'.log[1].reg = last'.ret
           /\ ua_port_type = "ev3_input_port_type" => last'.ret = -EINVAL
           /\ last'.ret = 0 =>
                /\ ua_port_ptr' = RawDataPtr("ua", last'.arg)
                /\ Len(last'.log) = 2
                /\ last'.log[2] = Op("lego_port_set_raw_data_ptr_and_func",
                                     last'.arg, "ua") ]_vars

\* a mode switch failed on a mux port while the pointer was at mode 0
C12_Witness ==
    /\ last.name = "ev3_uart_sensor_set_mode"
    /\ ua_port_type = "ms_ev3_smux_port_type"
    /\ last.arg = 1
    /\ last.ret = -5
    /\ ua_port_ptr = RawDataPtr("ua", 0)

\* the declared mode descriptors of the bound sensor, defaults applied
C13_ModeDescriptors ==
    { ApplyDefaults(nxt_i2c_sensor_defs[nxt_sensor].mode_info[m]) :
        m \in 1 .. Len(nxt_i2c_sensor_defs[nxt_sensor].mode_info) }

\* C13 (as claimed): every mode descriptor of a sensor of the table, defaults
\* applied, has raw_min and raw_max within the range of its data type.
C13_RawRangeFitsDataType ==
    nxt_sensor # 0 =>
        \A mi \in C13_ModeDescriptors :
            /\ DataTypeRange(mi.data_type).lo <= mi.raw_min
            /\ mi.raw_min <= DataTypeRange(mi.data_type).hi
            /\ DataTypeRange(mi.data_type).lo <= mi.raw_max
            /\ mi.raw_max <= DataTypeRange(mi.data_type).hi

\* C14 (as claimed): every sensor of the table has num_modes >= 1 equal to the
\* number of declared mode_info and of declared i2c_mode_info entries, and
\* num_commands equal to the number of declared cmd_info and i2c_cmd_info
\* entries.
C14_CountsMatchTables ==
    nxt_sensor # 0 =>
        /\ nxt_i2c_sensor_defs[nxt_sensor].num_modes >= 1
        /\ nxt_i2c_sensor_defs[nxt_sensor].num_modes
                = Len(nxt_i2c_sensor_defs[nxt_sensor].mode_info)
        /\ nxt_i2c_sensor_defs[nxt_sensor].num_modes
                = nxt_i2c_sensor_defs[nxt_sensor].i2c_mode_info
        /\ nxt_i2c_sensor_defs[nxt_sensor].num_commands
                = nxt_i2c_sensor_defs[nxt_sensor].cmd_info
        /\ nxt_i2c_sensor_defs[nxt_sensor].num_commands
                = nxt_i2c_sensor_defs[nxt_sensor].i2c_cmd_info

\* the rate a period yields: get_rate's floor(24000 / period)
C15_RateOf(period) == 24000 \div period

\* C15 (as claimed): for 94 <= v < 24000 the period p that set_rate writes is
\* in 1..255 and no period q in 1..255 yields a rate strictly closer to v.
C15_NearestPeriod ==
    (last.name = "ms_8ch_servo_set_rate" /\ last.arg >= 94 /\ last.arg < 24000)
    => /\ last.log[1].data \in 1 .. 255
       /\ \A q \in 1 .. 255 :
            ~ (Abs(C15_RateOf(q) - last.arg)
                    < Abs(C15_RateOf(last.log[1].data) - last.arg))

\* C15 (amended): for 94 <= v < 24000 the period p that set_rate writes is in
\* 1..255, its rate is at least v, and no period q in 1..255 yields a rate that
\* is at least v and below the rate of p: the request is rounded to the
\* nearest achievable rate not below it.
C15_NearestPeriodNotBelow ==
    (last.name = "ms_8ch_servo_set_rate" /\ last.arg >= 94 /\ last.arg < 24000)
    => /\ last.log[1].data \in 1 .. 255
       /\ C15_RateOf(last.log[1].data) >= last.arg
       /\ \A q \in 1 .. 255 :
            ~ (/\ C15_RateOf(q) >= last.arg
               /\ C15_RateOf(q) < C15_RateOf(last.log[1].data))

\* a request of 13000 is written as period 1 (rate 24000), although period 2
\* (rate 12000) is closer
C15_Witness ==
    /\ last.name = "ms_8ch_servo_set_rate"
    /\ last.arg = 13000
    /\ last.log[1].data = 1

\* C16: the period set_rate writes is in 0..255: 1 when value >= 24000, 0 when
\* value < 94, floor(24000 / value) otherwise; the division is never by zero.
C16_PeriodFitsByte ==
    last.name = "ms_8ch_servo_set_rate"
    => /\ ~ last.fault
       /\ Len(last.log) = 1
       /\ last.log[1].op = "write_word"
       /\ last.log[1].data \in 0 .. 255
       /\ last.arg >= 24000 => last.log[1].data = 1
       /\ last.arg < 94 => last.log[1].data = 0
       /\ (last.arg >= 94 /\ last.arg < 24000) =>
            /\ last.arg # 0
            /\ last.log[1].data * last.arg <= 24000
            /\ (last.log[1].data + 1) * last.arg > 24000

\* the smallest request that is divided, 94, gives the largest period, 255
C16_Witness ==
    /\ last.name = "ms_8ch_servo_set_rate"
    /\ last.arg = 94
    /\ last.log[1].data = 255

\* C17: after mi_xg1300l_probe_cb returns 0, callback_data points to a factor
\* equal to 1; mi_xg1300l_remove_cb frees a factor that exists exactly once
\* and sets callback_data to NULL, and a remove call made with callback_data
\* NULL (a second remove) frees nothing; no unbound sensor keeps a factor.
C17_FactorLifetime ==
    [][ /\ (last'.name = "mi_xg1300l_probe_cb" /\ xg_state = "unbound"
                /\ ~ last'.fault)
            => /\ last'.ret = 0
               /\ xg_callback_data' = "heap"
               /\ xg_scaling_factor' = 1
        /\ last'.name = "mi_xg1300l_remove_cb"
            => /\ xg_callback_data' = "NULL"
               /\ Cardinality(OpIndexes(last'.log, "kfree"))
                    = (IF xg_callback_data = "NULL" THEN 0 ELSE 1)
        /\ xg_state' = "unbound" => xg_callback_data' = "NULL" ]_vars

\* a second remove: the sensor was probed (its mode was selected), removed,
\* and the remove made last freed nothing
C17_Witness ==
    /\ last.name = "mi_xg1300l_remove_cb"
    /\ last.log = << >>
    /\ xg_mode = 1
    /\ xg_state = "unbound"
    /\ xg_callback_data = "NULL"

\* C18: if register_servo_motor fails with a negative error for servo i, then
\* exactly the servos 0..i-1 are unregistered, each once and in reverse order,
\* the servo array is freed once, callback_data and poll_ms are left unset and
\* the error is returned; probe returns 0 only with all 8 servos registered,
\* callback_data set and poll_ms = 1000.
C18_ProbeRollsBack ==
    [][ (last'.name = "ms_8ch_servo_probe_cb" /\ servo_state = "unbound"
            /\ ~ last'.fault)
        => LET log == last'.log
               regs == OpIndexes(log, "register_servo_motor")
               unregs == OpIndexes(log, "unregister_servo_motor")
               failed == { k \in regs : log[k].data < 0 }
           IN /\ failed # {} =>
                    /\ Cardinality(failed) = 1
                    /\ \A k \in failed :
                        /\ last'.ret = log[k].data
                        /\ log[k].reg = last'.index
                        /\ Cardinality(unregs) = log[k].reg
                        /\ \A u \in unregs :
                            /\ u > k
                            /\ log[u].reg = log[k].reg - (u - k)
                    /\ Cardinality(OpIndexes(log, "kfree")) = 1
                    /\ log[Len(log)].op = "kfree"
                    /\ servo_registered' = {}
                    /\ servo_callback_data' = "NULL"
                    /\ servo_poll_ms' = 0
                    /\ servo_state' = "unbound"
              /\ last'.ret = 0 =>
                    /\ failed = {}
                    /\ { log[k].reg : k \in regs } = 0 .. 7
                    /\ servo_registered' = 0 .. 7
                    /\ unregs = {}
                    /\ OpIndexes(log, "kfree") = {}
                    /\ servo_callback_data' = "servos"
                    /\ servo_poll_ms' = 1000 ]_vars

\* registration failed for servo 3: servos 2, 1, 0 were unregistered
C18_Witness ==
    /\ last.name = "ms_8ch_servo_probe_cb"
    /\ last.index = 3
    /\ last.ret = -5
    /\ Len(last.log) = 9
    /\ last.log[6] = Op("unregister_servo_motor", 2, 0)
    /\ last.log[8] = Op("unregister_servo_motor", 0, 0)
    /\ servo_callback_data = "NULL"

\* the three sensor probes and removes
C19_Probes ==
    {"ev3_uart_sensor_probe", "lego_ev3_analog_sensor_probe",
     "ev3_analog_sensor_probe"}

C20_Removes ==
    {"ev3_uart_sensor_remove", "lego_ev3_analog_sensor_remove",
     "ev3_analog_sensor_remove"}

\* C19: in each of the three probes a missing entry_id returns -EINVAL before
\* anything is allocated; if the sensor registration fails, the data is freed
\* exactly once, drvdata is not set, no set_mode is performed (the port is not
\* touched and nothing is bound) and the registration error is returned.
C19_ProbeFailureCleansUp ==
    [][ last'.name \in C19_Probes /\ last' # last
        => LET log == last'.log
               regs == OpIndexes(log, "register_lego_sensor")
                        \cup OpIndexes(log, "register_msensor")
               failed == { k \in regs : log[k].reg # 0 }
           IN /\ last'.arg = 0 =>
                    /\ last'.ret = -EINVAL
                    /\ log = << >>
                    /\ UNCHANGED << as_vars, la_vars, ua_vars >>
              /\ failed # {} =>
                    /\ \A k \in failed : last'.ret = log[k].reg
                    /\ Cardinality(OpIndexes(log, "kzalloc")) = 1
                    /\ Cardinality(OpIndexes(log, "kfree")) = 1
                    /\ \A f \in OpIndexes(log, "kfree") : \A k \in failed : f > k
                    /\ OpIndexes(log, "dev_set_drvdata") = {}
                    /\ OpIndexes(log, "set_mode_returned") = {}
                    /\ OpIndexes(log, "lego_port_set_raw_data_ptr_and_func") = {}
                    /\ OpIndexes(log, "set_pin5_gpio") = {}
                    /\ OpIndexes(log, "register_analog_cb") = {}
                    /\ UNCHANGED << as_vars, la_vars, ua_vars >> ]_vars

\* a UART sensor probe whose registration failed
C19_Witness ==
    /\ last.name = "ev3_uart_sensor_probe"
    /\ last.ret = -5
    /\ Len(last.log) = 3
    /\ last.log[2] = Op("register_lego_sensor", -5, "ua")
    /\ last.log[3].op = "kfree"
    /\ ua_state = "unbound"

\* the positions in a remove's log where the port's reference is cleared
C20_ClearIndexes(log) ==
    { k \in 1 .. Len(log) :
        /\ log[k].op \in {"lego_port_set_raw_data_ptr_and_func", "register_analog_cb"}
        /\ log[k].data = "NULL" }

\* C20: in each of the three removes the port's reference into the driver
\* data is cleared before the sensor is unregistered and before the data is
\* freed: once the sensor is unregistered, and once the data is freed, the
\* port holds no raw-data pointer, analog callback or context of the driver.
C20_PortClearedBeforeFree ==
    /\ as_state \in {"rm_port", "rm_unregistered", "unbound"}
            => in_port.analog_cb = "NULL" /\ in_port.context = "NULL"
    /\ la_state \in {"rm_port", "rm_unregistered", "unbound"} => la_port_ptr = NullPtr
    /\ ua_state \in {"rm_port", "rm_unregistered", "unbound"} => ua_port_ptr = NullPtr
    /\ last.name \in C20_Removes =>
            /\ C20_ClearIndexes(last.log) # {}
            /\ \A k \in OpIndexes(last.log, "unregister_lego_sensor")
                        \cup OpIndexes(last.log, "unregister_msensor")
                        \cup OpIndexes(last.log, "kfree") :
                    \A c \in C20_ClearIndexes(last.log) : c < k

\* a legoev3 analog sensor whose mode 1 had been selected, unregistered and
\* not yet freed: the port holds no callback
C20_Witness ==
    /\ as_state = "rm_unregistered"
    /\ as_mode = 1
    /\ in_port.context = "NULL"
    /\ last.log[Len(last.log)].op = "unregister_msensor"

\* C21: the sensor that ev3_uart_sensor_probe registered has num_modes equal
\* to info.num_view_modes on an ms-ev3-smux port and to info.num_modes on
\* every other port type.
C21_ViewModesOnMux ==
    ua_state # "unbound" =>
        ua_num_modes = (IF ua_port_type = "ms_ev3_smux_port_type"
                        THEN ua_info.num_view_modes
                        ELSE ua_info.num_modes)

\* a sensor with 2 modes, 1 of them a view mode, probed on a mux port
C21_Witness ==
    /\ last.name = "ev3_uart_sensor_probe"
    /\ last.ret = 0
    /\ ua_port_type = "ms_ev3_smux_port_type"
    /\ ua_info = [num_modes |-> 2, num_view_modes |-> 1]
    /\ ua_num_modes = 1

\* C22: before the first Absolute-IMU command the GYRO mode's pair (raw_max,
\* si_max) is (10000, 875); after any sequence of commands 0..5 it is one of
\* (10000, 875), (1000, 175), (1000, 700); only a command changes it.
C22_GyroPairOneOfThree ==
    /\ [] (/\ GyroPair \in {<< 10000, 875 >>, << 1000, 175 >>, << 1000, 700 >>}
           /\ last.name = "none" => GyroPair = << 10000, 875 >>)
    /\ [][ last'.name # "ms_imu_send_cmd_post_cb" => GyroPair' = GyroPair ]_vars

\* the third pair, set by command 5
C22_Witness ==
    /\ last.name = "ms_imu_send_cmd_post_cb"
    /\ last.arg = 5
    /\ GyroPair = << 1000, 700 >>

\* C23: while the XG1300L is bound (after a successful probe, before remove),
\* whatever commands were sent, the scaling factor is 1, 2 or 4; so the
\* product of any s16 sample and the factor lies in -131072..131068, within a
\* signed 32-bit integer, and so does every value the scale function stored.
C23_XgFactorBounded ==
    xg_state = "bound" =>
        /\ xg_scaling_factor \in {1, 2, 4}
        /\ \A raw_s16 \in {-32768, -1, 0, 1, 32767} :
                /\ raw_s16 * xg_scaling_factor >= -131072
                /\ raw_s16 * xg_scaling_factor <= 131068
        /\ (last.name = "mi_xg1300l_scale"
                /\ ~ (last.arg = 3 /\ last.index < 2))
            => /\ last.value = S16At(raw_data, last.index) * xg_scaling_factor
               /\ last.value \in -131072 .. 131068

\* a command outside 0..3 was sent while the factor was 4
C23_Witness ==
    /\ xg_state = "bound"
    /\ last.name = "mi_xg1300l_send_cmd_post_cb"
    /\ last.arg = 4
    /\ xg_scaling_factor = 4

\* C24: in the legoev3 analog sensor driver the current mode is 0 after a
\* successful probe, a set_mode call that returns 0 makes its argument the
\* current mode and one that fails leaves it, nothing else changes it while
\* the sensor is bound, get_mode returns it, and it is always < num_modes.
C24_CurrentModeTracksSetMode ==
    /\ [] (as_state = "bound" =>
                /\ as_info.num_modes >= 1
                /\ as_mode < as_info.num_modes)
    /\ [][ /\ (last'.name = "ev3_analog_sensor_probe" /\ as_state = "unbound"
                    /\ as_state' = "bound")
                => last'.ret = 0 /\ as_mode' = 0
           /\ (last'.name = "ev3_analog_sensor_set_mode" /\ last'.ret = 0)
                => as_mode' = last'.arg
           /\ (last'.name = "ev3_analog_sensor_set_mode" /\ last'.ret # 0)
                => as_mode' = as_mode
           /\ last'.name = "ev3_analog_sensor_get_mode"
                => last'.ret = as_mode /\ as_mode' = as_mode
           /\ (as_state = "bound" /\ as_state' = "bound"
                    /\ last'.name # "ev3_analog_sensor_set_mode")
                => as_mode' = as_mode ]_vars

\* get_mode reports mode 1, selected by an earlier set_mode
C24_Witness ==
    /\ as_state = "bound"
    /\ last.name = "ev3_analog_sensor_get_mode"
    /\ last.ret = 1
    /\ as_mode = 1

\* the rate get_rate computes from each period 1..255
C25_RateOfPeriod == [p \in 1 .. 255 |-> ServoRate(p)]

\* C25 (as claimed): for every period p in 1..255, set_rate called with the
\* rate get_rate computes from p, floor(24000 / p), writes back p.
C25_PeriodRoundTrip ==
    last.name = "ms_8ch_servo_set_rate" =>
        \A p \in 1 .. 255 :
            last.arg = C25_RateOfPeriod[p] => last.log[1].data = p

\* C25 (amended): for every period p in 1..255, set_rate called with the rate
\* get_rate computes from p writes a period p2 with p <= p2 <= 255 that gives
\* the same rate as p: the rate round-trips, the period moves to the largest
\* period of that rate.
C25_RateRoundTrip ==
    last.name = "ms_8ch_servo_set_rate" =>
        \A p \in 1 .. 255 :
            last.arg = C25_RateOfPeriod[p] =>
                /\ last.log[1].data >= p
                /\ last.log[1].data <= 255
                /\ C25_RateOfPeriod[last.log[1].data] = C25_RateOfPeriod[p]
                /\ \A q \in 1 .. 255 :
                        C25_RateOfPeriod[q] = C25_RateOfPeriod[p]
                            => q <= last.log[1].data

\* periods 251 and 252 both give rate 95, which is written back as 252
C25_Witness ==
    /\ last.name = "ms_8ch_servo_set_rate"
    /\ last.arg = ServoRate(251)
    /\ last.arg = 95
    /\ last.log[1].data = 252


\* C26: get_rate reads the register that set_rate writes for the same channel,
\* and get_position reads the register that set_position writes, for every
\* channel id in 0..7.
C26_SameRegisterPerChannel ==
    /\ last.name = "ms_8ch_servo_set_rate"
        => last.log[1].reg = ServoGetRateReg(last.index)
    /\ last.name = "ms_8ch_servo_set_position"
        => last.log[1].reg = ServoGetPositionReg(last.index)

\* C27: a set_position or set_rate on channel i writes no register that
\* get_position or get_rate reads for another channel j, and no position
\* register of any channel is a rate register of any channel.
C27_ChannelsIsolated ==
    /\ last.name \in {"ms_8ch_servo_set_rate", "ms_8ch_servo_set_position"} =>
        \A j \in (0 .. 7) \ {last.index} :
            /\ last.log[1].reg # ServoGetPositionReg(j)
            /\ last.log[1].reg # ServoGetRateReg(j)
    /\ \A i, j \in 0 .. 7 :
        /\ ServoGetPositionReg(i) # ServoGetRateReg(j)
        /\ ServoGetPositionReg(i) # ServoSetRateReg(j)
        /\ ServoSetPositionReg(i) # ServoGetRateReg(j)
        /\ ServoSetPositionReg(i) # ServoSetRateReg(j)

\* C28: whenever the default analog callback runs, also between set_mode's
\* register_analog_cb and its assignment of the mode, the sample goes to the
\* buffer of the mode the registration in effect was made for (the mode of
\* the set_mode call in progress once it has registered, else the current
\* mode), and the buffer of no other mode changes.
C28_SampleGoesToRegisteredMode ==
    [][ (last'.name = "ev3_analog_sensor_cb" /\ as_state = "bound"
            /\ as_state' = "bound") =>
          LET registered == IF as_pc.pc = "registered" THEN as_pc.mode
                            ELSE as_mode
          IN  /\ last'.index = registered
              /\ as_raw_data'[registered] = last'.value
              /\ \A m \in DOMAIN as_raw_data \ {registered} :
                    as_raw_data'[m] = as_raw_data[m] ]_vars

\* C29: when kzalloc returns NULL in mi_xg1300l_probe_cb or in
\* ms_8ch_servo_probe_cb, the callback returns a negative error code, nothing
\* is written through the NULL pointer, and nothing is registered.
C29_AllocFailureReturnsError ==
    (/\ last.name \in {"mi_xg1300l_probe_cb", "ms_8ch_servo_probe_cb"}
     /\ last.log # << >>
     /\ last.log[1] = Op("kzalloc", 0, 0)) =>
        /\ last.ret < 0
        /\ ~last.fault
        /\ OpIndexes(last.log, "register_servo_motor") = {}
        /\ last.name = "mi_xg1300l_probe_cb" =>
                xg_state = "unbound" /\ xg_callback_data = "NULL"
        /\ last.name = "ms_8ch_servo_probe_cb" =>
                servo_state = "unbound" /\ servo_callback_data = "NULL"

\* C30: whenever ev3_uart_sensor_probe or the lego-class
\* ev3_analog_sensor_probe returns 0, the set_mode(0) call it made returned 0
\* and the port's raw-data pointer refers to mode 0's raw_data buffer.
C30_ProbeZeroMeansModeZeroSelected ==
    (/\ last.name \in {"ev3_uart_sensor_probe", "lego_ev3_analog_sensor_probe"}
     /\ last.ret = 0) =>
        /\ OpIndexes(last.log, "set_mode_returned") # {}
        /\ \A i \in OpIndexes(last.log, "set_mode_returned") :
                last.log[i].reg = 0
        /\ last.name = "ev3_uart_sensor_probe" =>
                ua_port_ptr = RawDataPtr("ua", 0)
        /\ last.name = "lego_ev3_analog_sensor_probe" =>
                la_port_ptr = RawDataPtr("la", 0)

====
